---- MODULE Spec2Model ----
(***************************************************************************)
(* Wayfinder destination search: the SearchEngine of src/js/search.js and  *)
(* the handlers of src/app.js that call it.                                *)
(*                                                                         *)
(* A JavaScript string is modelled as the sequence of its characters, each *)
(* character a one-character TLA+ string: "2b" is <<"2", "b">>.            *)
(***************************************************************************)
EXTENDS Integers, Sequences, FiniteSets, TLC

VARIABLES config, libraryData, inputValue, results, suggestionItems,
          suggestionsShown, pc, error, previousResults, args, ret,
          response, floorMapsResponse, floorMaps, listeners, screen,
          urlDest, deepLinkTimer, selectedDestination, currentRoute, view,
          legacyResults, currentFloor, rehighlightTimers, mapHighlight,
          isMobileView, searchTimers, timeout, inputEvents, lastHandled,
          highlighted, floorSwitchTimers, floorSwitchTimeout,
          observerSetupTimers, scrollObserver

vars == <<config, libraryData, inputValue, results, suggestionItems,
          suggestionsShown, pc, error, previousResults, args, ret,
          response, floorMapsResponse, floorMaps, listeners, screen,
          urlDest, deepLinkTimer, selectedDestination, currentRoute, view,
          legacyResults, currentFloor, rehighlightTimers, mapHighlight,
          isMobileView, searchTimers, timeout, inputEvents, lastHandled,
          highlighted, floorSwitchTimers, floorSwitchTimeout,
          observerSetupTimers, scrollObserver>>

\* The variables of the application outside the search: what the two
\* fetches of init will answer, how far init got, and the session state.
appVars == <<response, floorMapsResponse, floorMaps, listeners, screen,
             urlDest, deepLinkTimer, selectedDestination, currentRoute, view>>

\* The floor shown, the pending re-highlight timers of switchFloor, what the
\* map highlights, and the layout.
viewVars == <<currentFloor, rehighlightTimers, mapHighlight, isMobileView>>

\* The debounce of the legacy search input: the pending timers (each named
\* by the number of the input event that set it), the timeout variable of
\* the closure, the number of input events so far, and the event the
\* handler last ran with.
debounceVars == <<searchTimers, timeout, inputEvents, lastHandled>>

\* The scroll-based floor switching of the legacy mobile layout: the pending
\* 200 ms timers (each named by its target floor), this.floorSwitchTimeout,
\* the number of pending deferred observer setups, and the observers.
scrollVars == <<floorSwitchTimers, floorSwitchTimeout, observerSetupTimers,
                scrollObserver>>

\* What only the legacy WayfinderApp has; highlighted holds the positions of
\* the suggestion items that carry the class 'highlighted'.
legacyVars == <<debounceVars, highlighted, scrollVars>>

\* What only the legacy WayfinderApp and the views of a session use.
sessionVars == <<legacyResults, viewVars, legacyVars>>

(***************************************************************************)
(* Bounds of the checked inputs.                                           *)
(***************************************************************************)
MaxNodes == 3
MaxLongNodes == 7
MaxNameLen == 3
MaxQueryLen == 2

(***************************************************************************)
(* Characters and the string primitives of JavaScript used by the search.  *)
(***************************************************************************)
UpperCase == <<"A", "B", "C", "D", "E", "F", "G", "H", "I", "J", "K", "L", "M",
               "N", "O", "P", "Q", "R", "S", "T", "U", "V", "W", "X", "Y", "Z">>

LowerCase == <<"a", "b", "c", "d", "e", "f", "g", "h", "i", "j", "k", "l", "m",
               "n", "o", "p", "q", "r", "s", "t", "u", "v", "w", "x", "y", "z">>

Digits == {"0", "1", "2", "3", "4", "5", "6", "7", "8", "9"}

Letters == {UpperCase[i] : i \in 1..26} \cup {LowerCase[i] : i \in 1..26}

WhiteSpace == {" ", "\t", "\n"}

SetMin(S) == CHOOSE x \in S : \A y \in S : x <= y

SetMax(S) == CHOOSE x \in S : \A y \in S : x >= y

MathMax(a, b) == IF a >= b THEN a ELSE b

MathMin(a, b) == IF a <= b THEN a ELSE b

MathAbs(a) == IF a >= 0 THEN a ELSE 0 - a

toLowerChar(c) ==
    IF \E i \in 1..26 : UpperCase[i] = c
    THEN LowerCase[CHOOSE i \in 1..26 : UpperCase[i] = c]
    ELSE c

toLowerCase(s) == [i \in 1..Len(s) |-> toLowerChar(s[i])]

trim(s) ==
    LET kept == {i \in 1..Len(s) : s[i] \notin WhiteSpace}
    IN  IF kept = {} THEN <<>> ELSE SubSeq(s, SetMin(kept), SetMax(kept))

startsWith(s, q) == Len(q) <= Len(s) /\ SubSeq(s, 1, Len(q)) = q

endsWith(s, q) == Len(q) <= Len(s) /\ SubSeq(s, Len(s) - Len(q) + 1, Len(s)) = q

includes(s, q) ==
    \E i \in 0..(Len(s) - Len(q)) : SubSeq(s, i + 1, i + Len(q)) = q

\* Index of the last character of the run of Class characters that starts at
\* position i (i - 1 when s[i] is not in Class or i is past the end).
RunEnd(s, i, Class) ==
    LET stops == {j \in i..Len(s) : s[j] \notin Class}
    IN  IF stops = {} THEN Len(s) ELSE SetMin(stops) - 1

\* text.split(/\s+/): the pieces between maximal runs of white space; a
\* leading or trailing run yields an empty first or last piece.
RECURSIVE splitFrom(_, _, _)
splitFrom(s, i, piece) ==
    IF i > Len(s) THEN <<piece>>
    ELSE IF s[i] \in WhiteSpace
         THEN <<piece>> \o splitFrom(s, RunEnd(s, i, WhiteSpace) + 1, <<>>)
         ELSE splitFrom(s, i + 1, Append(piece, s[i]))

split(s) == splitFrom(s, 1, <<>>)

hasDigit(q) == \E i \in 1..Len(q) : q[i] \in Digits

(***************************************************************************)
(* SearchEngine helpers (src/js/search.js).                                *)
(***************************************************************************)
hasPartialWordMatch(text, query) ==
    LET words == split(text)
        matches(word) ==
            IF includes(word, query)
            THEN IF Len(query) <= 2
                 THEN startsWith(word, query) \/ endsWith(word, query)
                      \/ hasDigit(query)
                 ELSE TRUE
            ELSE FALSE
    IN  \E i \in 1..Len(words) : matches(words[i])

\* /^[0-9]+[A-Za-z]*$/ or /^[A-Za-z]+[0-9]+[A-Za-z]*$/
matchesPattern(query) ==
    LET n == Len(query)
        digitsThenLetters ==
            /\ n >= 1
            /\ query[1] \in Digits
            /\ RunEnd(query, RunEnd(query, 1, Digits) + 1, Letters) = n
        lettersDigitsLetters ==
            /\ n >= 2
            /\ query[1] \in Letters
            /\ LET l == RunEnd(query, 1, Letters)
               IN  /\ l < n
                   /\ query[l + 1] \in Digits
                   /\ RunEnd(query, RunEnd(query, l + 1, Digits) + 1, Letters) = n
    IN  digitsThenLetters \/ lettersDigitsLetters

\* One attempt of /[0-9]+[A-Za-z]*|[A-Za-z]+[0-9]+[A-Za-z]*/ at position i:
\* the index of the last matched character, or 0 when there is no match at i.
\* Both alternatives are greedy; giving back letters of [A-Za-z]+ never helps
\* because the character given back is a letter, not a digit.
patternMatchAt(text, i) ==
    IF text[i] \in Digits
    THEN RunEnd(text, RunEnd(text, i, Digits) + 1, Letters)
    ELSE IF text[i] \in Letters
         THEN LET l == RunEnd(text, i, Letters)
              IN  IF l < Len(text) /\ text[l + 1] \in Digits
                  THEN RunEnd(text, RunEnd(text, l + 1, Digits) + 1, Letters)
                  ELSE 0
         ELSE 0

\* text.match(/.../g) || []: the leftmost non-overlapping matches, in order.
RECURSIVE matchPatternsFrom(_, _)
matchPatternsFrom(text, i) ==
    IF i > Len(text) THEN <<>>
    ELSE LET e == patternMatchAt(text, i)
         IN  IF e = 0
             THEN matchPatternsFrom(text, i + 1)
             ELSE <<SubSeq(text, i, e)>> \o matchPatternsFrom(text, e + 1)

matchPatterns(text) == matchPatternsFrom(text, 1)

\* The for loop of getPatternMatchScore: the first pattern that equals or
\* contains the query decides, later patterns are not looked at.
RECURSIVE patternLoop_ContainsOnly(_, _)
patternLoop_ContainsOnly(patterns, query) ==
    IF patterns = <<>> THEN 0
    ELSE IF includes(toLowerCase(Head(patterns)), query) THEN 75
    ELSE patternLoop_ContainsOnly(Tail(patterns), query)

RECURSIVE patternLoop(_, _)
patternLoop(patterns, query) ==
    IF patterns = <<>> THEN 0
    ELSE IF toLowerCase(Head(patterns)) = query THEN 85
    ELSE IF includes(toLowerCase(Head(patterns)), query) THEN 75
    ELSE patternLoop(Tail(patterns), query)

getPatternMatchScore(text, query) == patternLoop(matchPatterns(text), query)

RECURSIVE levenshteinCells_NoSubstitution(_, _, _, _, _)
levenshteinCells_NoSubstitution(str1, str2, i, prevRow, row) ==
    LET j == Len(row)
    IN  IF j > Len(str1) THEN row
        ELSE LET cell ==
                    IF str2[i] = str1[j]
                    THEN prevRow[j]
                    ELSE MathMin(row[j] + 1, prevRow[j + 1] + 1)
             IN  levenshteinCells_NoSubstitution(str1, str2, i, prevRow,
                                                 Append(row, cell))

\* The dynamic-programming table of levenshteinDistance, row by row: row i
\* holds matrix[i][0..str1.length] at positions 1..str1.length+1.
RECURSIVE levenshteinCells(_, _, _, _, _)
levenshteinCells(str1, str2, i, prevRow, row) ==
    LET j == Len(row)
    IN  IF j > Len(str1) THEN row
        ELSE LET cell ==
                    IF str2[i] = str1[j]
                    THEN prevRow[j]
                    ELSE MathMin(prevRow[j] + 1,
                                 MathMin(row[j] + 1, prevRow[j + 1] + 1))
             IN  levenshteinCells(str1, str2, i, prevRow, Append(row, cell))

RECURSIVE levenshteinRows(_, _, _, _)
levenshteinRows(str1, str2, i, prevRow) ==
    IF i > Len(str2) THEN prevRow
    ELSE levenshteinRows(str1, str2, i + 1,
                         levenshteinCells(str1, str2, i, prevRow, <<i>>))

levenshteinDistance(str1, str2) ==
    levenshteinRows(str1, str2, 1, [j \in 1..(Len(str1) + 1) |-> j - 1])[Len(str1) + 1]

fuzzyWordScore_Ceil(word, query) ==
    IF MathAbs(Len(word) - Len(query)) <= 2
    THEN LET distance  == levenshteinDistance(word, query)
             maxLength == MathMax(Len(word), Len(query))
         IN  IF maxLength > 0 /\ 10 * (maxLength - distance) >= 7 * maxLength
             THEN (60 * (maxLength - distance) + maxLength - 1) \div maxLength
             ELSE 0
    ELSE 0

\* similarity = (maxLength - distance) / maxLength is a double; for the
\* lengths that occur, similarity >= 0.7 and Math.floor(similarity * 60)
\* agree with the exact rational arithmetic used here.  0 / 0 is NaN, which
\* fails the comparison.
fuzzyWordScore(word, query) ==
    IF MathAbs(Len(word) - Len(query)) <= 2
    THEN LET distance  == levenshteinDistance(word, query)
             maxLength == MathMax(Len(word), Len(query))
         IN  IF maxLength > 0 /\ 10 * (maxLength - distance) >= 7 * maxLength
             THEN (60 * (maxLength - distance)) \div maxLength
             ELSE 0
    ELSE 0

RECURSIVE fuzzyLoop(_, _, _)
fuzzyLoop(words, query, bestScore) ==
    IF words = <<>> THEN bestScore
    ELSE fuzzyLoop(Tail(words), query,
                   MathMax(bestScore, fuzzyWordScore(Head(words), query)))

getFuzzyMatchScore(text, query) == fuzzyLoop(split(text), query, 0)

(***************************************************************************)
(* highlightSearchTerm and escapeRegExp.  A regular expression source is   *)
(* parsed into alternatives of atoms and matched with backtracking, in the *)
(* order of preference of the JavaScript matcher.  The output is the       *)
(* sequence of the name's characters with the two marker strings inserted. *)
(***************************************************************************)
MetaCharacters == {".", "*", "+", "?", "^", "$", "{", "}", "(", ")", "|", "[", "]", "\\"}

escapeRegExp_Identity(string) == string

\* string.replace(/[.*+?^${}()|[\]\\]/g, '\\$&')
RECURSIVE escapeRegExp(_)
escapeRegExp(string) ==
    IF string = <<>> THEN <<>>
    ELSE (IF Head(string) \in MetaCharacters
          THEN <<"\\", Head(string)>>
          ELSE <<Head(string)>>) \o escapeRegExp(Tail(string))

Quantifiers == {"*", "+", "?"}

\* The atoms of one alternative: [kind, ch, quantifier, lazy].  kind is
\* "lit" (the character ch, compared case-insensitively), "any" (.),
\* "start" (^), "end" ($) or "invalid" (a source the RegExp constructor
\* rejects); a ? behind a quantifier makes it lazy.  Braces and ] are
\* literal unless they form a counted quantifier or close a class, which no
\* source built here does.
RECURSIVE parseAtoms(_)
parseAtoms(source) ==
    IF source = <<>> THEN <<>>
    ELSE LET c == Head(source)
             escaped == c = "\\"
             width == IF escaped THEN 2 ELSE 1
             kind ==
                 IF escaped THEN (IF Len(source) >= 2 THEN "lit" ELSE "invalid")
                 ELSE IF c = "." THEN "any"
                 ELSE IF c = "^" THEN "start"
                 ELSE IF c = "$" THEN "end"
                 ELSE IF c \in Quantifiers \cup {"(", ")", "["} THEN "invalid"
                 ELSE "lit"
             ch == IF escaped /\ Len(source) >= 2 THEN source[2] ELSE c
             quantified == /\ kind \in {"lit", "any"}
                           /\ Len(source) > width
                           /\ source[width + 1] \in Quantifiers
             quantifier == IF quantified THEN source[width + 1] ELSE ""
             lazy == /\ quantified
                     /\ Len(source) > width + 1
                     /\ source[width + 2] = "?"
             used == IF lazy THEN width + 2
                     ELSE IF quantified THEN width + 1
                     ELSE MathMin(width, Len(source))
         IN  <<[kind |-> kind, ch |-> ch, quantifier |-> quantifier, lazy |-> lazy]>>
             \o parseAtoms(SubSeq(source, used + 1, Len(source)))

\* The alternatives of a source: its pieces between unescaped | characters.
RECURSIVE splitAlternatives(_, _)
splitAlternatives(source, piece) ==
    IF source = <<>> THEN <<piece>>
    ELSE IF Head(source) = "\\" /\ Len(source) >= 2
         THEN splitAlternatives(SubSeq(source, 3, Len(source)),
                                piece \o SubSeq(source, 1, 2))
         ELSE IF Head(source) = "|"
              THEN <<piece>> \o splitAlternatives(Tail(source), <<>>)
              ELSE splitAlternatives(Tail(source), Append(piece, Head(source)))

\* new RegExp(`(${source})`, 'gi'): the alternatives inside the group.
RegExp(source) ==
    LET pieces == splitAlternatives(source, <<>>)
        alternatives == [k \in 1..Len(pieces) |-> parseAtoms(pieces[k])]
    IN  [valid |-> \A k \in 1..Len(alternatives) :
                      \A a \in 1..Len(alternatives[k]) :
                          alternatives[k][a].kind # "invalid",
         alternatives |-> alternatives]

atomMatches(atom, c) ==
    IF atom.kind = "any" THEN c # "\n"
    ELSE toLowerChar(c) = toLowerChar(atom.ch)

\* How many characters of text from position i on the atom matches in a row.
RECURSIVE runLength(_, _, _)
runLength(atom, text, i) ==
    IF i <= Len(text) /\ atomMatches(atom, text[i])
    THEN 1 + runLength(atom, text, i + 1)
    ELSE 0

\* The positions just past a match of the atoms at position i, most
\* preferred first: a greedy quantifier takes all it can and gives back one
\* at a time, a lazy one takes as few as it can and adds one at a time.
RECURSIVE matchEnds(_, _, _)
matchEndsFor(atoms, text, i, counts) ==
    LET RECURSIVE gather(_)
        gather(k) ==
            IF k > Len(counts) THEN <<>>
            ELSE matchEnds(Tail(atoms), text, i + counts[k]) \o gather(k + 1)
    IN  gather(1)

matchEnds(atoms, text, i) ==
    IF atoms = <<>> THEN <<i>>
    ELSE LET atom == Head(atoms)
             n == runLength(atom, text, i)
             down(hi, lo) == IF atom.lazy
                             THEN [k \in 1..(hi - lo + 1) |-> lo + k - 1]
                             ELSE [k \in 1..(hi - lo + 1) |-> hi - k + 1]
         IN  IF atom.kind = "start"
             THEN (IF i = 1 THEN matchEnds(Tail(atoms), text, i) ELSE <<>>)
             ELSE IF atom.kind = "end"
             THEN (IF i = Len(text) + 1 THEN matchEnds(Tail(atoms), text, i) ELSE <<>>)
             ELSE IF atom.quantifier = "*" THEN matchEndsFor(atoms, text, i, down(n, 0))
             ELSE IF atom.quantifier = "+" THEN matchEndsFor(atoms, text, i, down(n, 1))
             ELSE IF atom.quantifier = "?"
                  THEN matchEndsFor(atoms, text, i, down(MathMin(n, 1), 0))
             ELSE IF n >= 1 THEN matchEnds(Tail(atoms), text, i + 1)
             ELSE <<>>

\* The preferred match of the regular expression at position i: the position
\* just past it, or 0 when there is none.
matchAt(regex, text, i) ==
    LET RECURSIVE firstOf(_)
        firstOf(k) ==
            IF k > Len(regex.alternatives) THEN 0
            ELSE LET ends == matchEnds(regex.alternatives[k], text, i)
                 IN  IF ends # <<>> THEN Head(ends) ELSE firstOf(k + 1)
    IN  firstOf(1)

MarkOpen == "<mark class=\"search-highlight\">"

MarkClose == "</mark>"

\* name.replace(regex, '<mark class="search-highlight">$1</mark>') with the
\* g flag: leftmost matches, each search starting where the last match
\* ended, one character further after an empty match.
RECURSIVE replace(_, _, _)
replace(name, regex, i) ==
    IF i > Len(name) + 1 THEN <<>>
    ELSE LET e == matchAt(regex, name, i)
             rest == IF i <= Len(name) THEN <<name[i]>> ELSE <<>>
         IN  IF e = 0 THEN rest \o replace(name, regex, i + 1)
             ELSE IF e = i
                  THEN <<MarkOpen, MarkClose>> \o rest \o replace(name, regex, i + 1)
                  ELSE <<MarkOpen>> \o SubSeq(name, i, e - 1) \o <<MarkClose>>
                       \o replace(name, regex, e)

\* highlightSearchTerm(name, searchTerm): [threw, value]; the RegExp
\* constructor throws a SyntaxError on an invalid source.
highlightSearchTerm(name, searchTerm) ==
    IF searchTerm = <<>> THEN [threw |-> FALSE, value |-> name]
    ELSE LET regex == RegExp(escapeRegExp(searchTerm))
         IN  IF regex.valid
             THEN [threw |-> FALSE, value |-> replace(name, regex, 1)]
             ELSE [threw |-> TRUE, value |-> <<>>]

(***************************************************************************)
(* Per-node scoring of SearchEngine.searchDestinations, stage by stage.    *)
(* A node is [id, name, type, hasKeywords, search_keywords]; hasKeywords   *)
(* is FALSE when the node has no search_keywords property.                 *)
(***************************************************************************)
normalizeQuery_NoTrim(query) == toLowerCase(query)

\* query.toLowerCase().trim()
normalizeQuery(query) == trim(toLowerCase(query))

nameScore_PrefixFirst(nameLower, queryLower) ==
    LET nameWords == split(nameLower)
    IN  IF startsWith(nameLower, queryLower) THEN 95
        ELSE IF nameLower = queryLower THEN 100
        ELSE IF \E i \in 1..Len(nameWords) : startsWith(nameWords[i], queryLower) THEN 90
        ELSE IF includes(nameLower, queryLower) THEN 85
        ELSE IF hasPartialWordMatch(nameLower, queryLower) THEN 80
        ELSE 0

nameScore_PartialBeforeSubstring(nameLower, queryLower) ==
    LET nameWords == split(nameLower)
    IN  IF nameLower = queryLower THEN 100
        ELSE IF startsWith(nameLower, queryLower) THEN 95
        ELSE IF \E i \in 1..Len(nameWords) : startsWith(nameWords[i], queryLower) THEN 90
        ELSE IF hasPartialWordMatch(nameLower, queryLower) THEN 80
        ELSE IF includes(nameLower, queryLower) THEN 85
        ELSE 0

\* Heuristics 1-5: the if / else-if chain on the name.
nameScore(nameLower, queryLower) ==
    LET nameWords == split(nameLower)
        wordStarts(word) == startsWith(word, queryLower)
    IN  IF nameLower = queryLower THEN 100
        ELSE IF startsWith(nameLower, queryLower) THEN 95
        ELSE IF \E i \in 1..Len(nameWords) : wordStarts(nameWords[i]) THEN 90
        ELSE IF includes(nameLower, queryLower) THEN 85
        ELSE IF hasPartialWordMatch(nameLower, queryLower) THEN 80
        ELSE 0

keywordMatch(keyword, queryLower) ==
    LET keywordLower == toLowerCase(keyword)
    IN  IF keywordLower = queryLower THEN 75
        ELSE IF startsWith(keywordLower, queryLower) THEN 70
        ELSE IF includes(keywordLower, queryLower) THEN 65
        ELSE 0

RECURSIVE keywordLoop_Last(_, _, _)
keywordLoop_Last(keywords, queryLower, keywordScore) ==
    IF keywords = <<>> THEN keywordScore
    ELSE keywordLoop_Last(Tail(keywords), queryLower,
                          keywordMatch(Head(keywords), queryLower))

RECURSIVE keywordLoop(_, _, _)
keywordLoop(keywords, queryLower, keywordScore) ==
    IF keywords = <<>> THEN keywordScore
    ELSE keywordLoop(Tail(keywords), queryLower,
                     MathMax(keywordScore, keywordMatch(Head(keywords), queryLower)))

afterKeywords_Sum(node, queryLower, score) ==
    IF node.hasKeywords
    THEN score + keywordLoop(node.search_keywords, queryLower, 0)
    ELSE score

\* Heuristic 6: folded into the score only when the node has keywords.
afterKeywords(node, queryLower, score) ==
    IF node.hasKeywords
    THEN MathMax(score, keywordLoop(node.search_keywords, queryLower, 0))
    ELSE score

\* Heuristic 7: short queries that have no score yet.
afterShortQuery(nameLower, queryLower, score) ==
    IF Len(queryLower) <= 3 /\ score = 0
    THEN LET nameWords == split(nameLower)
             wordContainsQuery ==
                 \E i \in 1..Len(nameWords) : includes(nameWords[i], queryLower)
             s1 == IF wordContainsQuery THEN 75 ELSE score
         IN  IF s1 = 0 /\ includes(nameLower, queryLower) THEN 70 ELSE s1
    ELSE score

afterPattern_Overwrite(nameLower, queryLower, score) ==
    IF matchesPattern(queryLower)
    THEN getPatternMatchScore(nameLower, queryLower)
    ELSE score

\* Heuristic 8: room-code patterns.
afterPattern(nameLower, queryLower, score) ==
    IF matchesPattern(queryLower)
    THEN MathMax(score, getPatternMatchScore(nameLower, queryLower))
    ELSE score

afterFuzzy_Overwrite(nameLower, queryLower, score) ==
    IF Len(queryLower) >= 3
    THEN getFuzzyMatchScore(nameLower, queryLower)
    ELSE score

\* Heuristic 9: fuzzy matching of a query that has no score yet.
afterFuzzy(nameLower, queryLower, score) ==
    IF score = 0 /\ Len(queryLower) >= 3
    THEN MathMax(score, getFuzzyMatchScore(nameLower, queryLower))
    ELSE score

scoreAfter5(node, queryLower) == nameScore(toLowerCase(node.name), queryLower)

scoreAfter6(node, queryLower) ==
    afterKeywords(node, queryLower, scoreAfter5(node, queryLower))

scoreAfter7(node, queryLower) ==
    afterShortQuery(toLowerCase(node.name), queryLower, scoreAfter6(node, queryLower))

scoreAfter8(node, queryLower) ==
    afterPattern(toLowerCase(node.name), queryLower, scoreAfter7(node, queryLower))

nodeScore(node, queryLower) ==
    afterFuzzy(toLowerCase(node.name), queryLower, scoreAfter8(node, queryLower))

isSearchable_AnyType(node) == TRUE

isSearchable(node) == node.type = "destination"

\* The forEach over libraryData.nodes: the scored candidates, in node order.
RECURSIVE scoreNodes(_, _)
scoreNodes(nodes, queryLower) ==
    IF nodes = <<>> THEN <<>>
    ELSE LET node  == Head(nodes)
             score == nodeScore(node, queryLower)
             rest  == scoreNodes(Tail(nodes), queryLower)
         IN  IF isSearchable(node) /\ score > 0
             THEN <<[node |-> node, score |-> score]>> \o rest
             ELSE rest

compare_ScoreOnly(a, b) == b.score - a.score

\* The comparator handed to Array.prototype.sort.
compare(a, b) ==
    IF b.score # a.score THEN b.score - a.score
    ELSE Len(a.node.name) - Len(b.node.name)

\* Array.prototype.sort is stable: x goes behind every element that does not
\* compare greater than it.
sortInsert(sorted, x) ==
    LET before == {i \in 1..Len(sorted) : compare(sorted[i], x) <= 0}
        k == IF before = {} THEN 0 ELSE SetMax(before)
    IN  SubSeq(sorted, 1, k) \o <<x>> \o SubSeq(sorted, k + 1, Len(sorted))

RECURSIVE sortFrom(_, _)
sortFrom(items, sorted) ==
    IF items = <<>> THEN sorted
    ELSE sortFrom(Tail(items), sortInsert(sorted, Head(items)))

sort(items) == sortFrom(items, <<>>)

\* .slice(0, maxSuggestions): an undefined end keeps the whole array.
slice(items, cfg) ==
    IF cfg.hasMax
    THEN SubSeq(items, 1, MathMin(cfg.maxSuggestions, Len(items)))
    ELSE items

\* new SearchEngine(config): this.config = config || { maxSuggestions: 6 }
DefaultMaxSuggestions == 6

SearchEngine(cfgArg) ==
    IF cfgArg.present
    THEN [hasMax |-> cfgArg.hasMax, maxSuggestions |-> cfgArg.maxSuggestions]
    ELSE [hasMax |-> TRUE, maxSuggestions |-> DefaultMaxSuggestions]

\* libraryData.nodes.forEach(...) on an object that has no nodes property:
\* "Cannot read properties of undefined".
searchDestinationsThrows(data) == ~data.isNull /\ ~data.hasNodes

\* The value searchDestinations returns when it does not throw.
searchDestinations(cfg, query, data) ==
    IF data.isNull THEN <<>>
    ELSE LET queryLower == normalizeQuery(query)
             ranked == slice(sort(scoreNodes(data.nodes, queryLower)), cfg)
         IN  [i \in 1..Len(ranked) |-> ranked[i].node]

(***************************************************************************)
(* The legacy WayfinderApp (src/app.js:8-1214) carries its own copy of the *)
(* search.  Its methods are translated here from that copy; the string     *)
(* methods and the regular-expression literals, which are the same in both *)
(* files, are the operators above.                                         *)
(***************************************************************************)
legacyHasPartialWordMatch(text, query) ==
    LET words == split(text)
    IN  \E i \in 1..Len(words) :
            /\ includes(words[i], query)
            /\ Len(query) <= 2 =>
                   \/ startsWith(words[i], query)
                   \/ endsWith(words[i], query)
                   \/ hasDigit(query)

legacyMatchesPattern(query) == matchesPattern(query)

RECURSIVE legacyPatternLoop(_, _, _)
legacyPatternLoop(patterns, query, k) ==
    IF k > Len(patterns) THEN 0
    ELSE IF toLowerCase(patterns[k]) = query THEN 85
    ELSE IF includes(toLowerCase(patterns[k]), query) THEN 75
    ELSE legacyPatternLoop(patterns, query, k + 1)

legacyGetPatternMatchScore(text, query) ==
    legacyPatternLoop(matchPatterns(text), query, 1)

\* The words.forEach of getFuzzyMatchScore, from word k on.
RECURSIVE legacyFuzzyLoop(_, _, _, _)
legacyFuzzyLoop(words, query, k, bestScore) ==
    IF k > Len(words) THEN bestScore
    ELSE LET word == words[k]
             distance == levenshteinDistance(word, query)
             maxLength == MathMax(Len(word), Len(query))
             similar == maxLength > 0 /\ 10 * (maxLength - distance) >= 7 * maxLength
             next == IF MathAbs(Len(word) - Len(query)) <= 2 /\ similar
                     THEN MathMax(bestScore, (60 * (maxLength - distance)) \div maxLength)
                     ELSE bestScore
         IN  legacyFuzzyLoop(words, query, k + 1, next)

legacyGetFuzzyMatchScore(text, query) == legacyFuzzyLoop(split(text), query, 1, 0)

\* getMatchInfo(node, query): how the node matched, kept with each candidate
\* and dropped by the final map.
getMatchInfo(node, query) ==
    LET nameLower == toLowerCase(node.name)
        queryLower == toLowerCase(query)
        hits == IF node.hasKeywords
                THEN SelectSeq(node.search_keywords,
                               LAMBDA keyword : includes(toLowerCase(keyword), queryLower))
                ELSE <<>>
    IN  IF includes(nameLower, queryLower)
        THEN [type |-> "name", matchedText |-> query]
        ELSE IF hits # <<>>
             THEN [type |-> "keyword", matchedText |-> hits[1]]
             ELSE [type |-> "other", matchedText |-> <<>>]

legacyScore_NoKeywords(node, queryLower) ==
    LET nameLower == toLowerCase(node.name)
        nameWords == split(nameLower)
        s5 == IF nameLower = queryLower THEN 100
              ELSE IF startsWith(nameLower, queryLower) THEN 95
              ELSE IF \E i \in 1..Len(nameWords) : startsWith(nameWords[i], queryLower)
                   THEN 90
              ELSE IF includes(nameLower, queryLower) THEN 85
              ELSE IF legacyHasPartialWordMatch(nameLower, queryLower) THEN 80
              ELSE 0
        s7 == IF Len(queryLower) <= 3 /\ s5 = 0
              THEN IF \E i \in 1..Len(nameWords) : includes(nameWords[i], queryLower)
                   THEN 75
                   ELSE IF includes(nameLower, queryLower) THEN 70 ELSE 0
              ELSE s5
        s8 == IF legacyMatchesPattern(queryLower)
              THEN MathMax(s7, legacyGetPatternMatchScore(nameLower, queryLower))
              ELSE s7
    IN  IF s8 = 0 /\ Len(queryLower) >= 3
        THEN MathMax(s8, legacyGetFuzzyMatchScore(nameLower, queryLower))
        ELSE s8

\* The body of the forEach of the legacy searchDestinations: the score of
\* one destination after heuristics 1-9.
legacyScore(node, queryLower) ==
    LET nameLower == toLowerCase(node.name)
        nameWords == split(nameLower)
        s5 == IF nameLower = queryLower THEN 100
              ELSE IF startsWith(nameLower, queryLower) THEN 95
              ELSE IF \E i \in 1..Len(nameWords) : startsWith(nameWords[i], queryLower)
                   THEN 90
              ELSE IF includes(nameLower, queryLower) THEN 85
              ELSE IF legacyHasPartialWordMatch(nameLower, queryLower) THEN 80
              ELSE 0
        keywordScores ==
            {0} \cup
            { LET keywordLower == toLowerCase(node.search_keywords[k])
              IN  IF keywordLower = queryLower THEN 75
                  ELSE IF startsWith(keywordLower, queryLower) THEN 70
                  ELSE IF includes(keywordLower, queryLower) THEN 65
                  ELSE 0 : k \in 1..Len(node.search_keywords) }
        s6 == IF node.hasKeywords THEN MathMax(s5, SetMax(keywordScores)) ELSE s5
        s7 == IF Len(queryLower) <= 3 /\ s6 = 0
              THEN IF \E i \in 1..Len(nameWords) : includes(nameWords[i], queryLower)
                   THEN 75
                   ELSE IF includes(nameLower, queryLower) THEN 70 ELSE 0
              ELSE s6
        s8 == IF legacyMatchesPattern(queryLower)
              THEN MathMax(s7, legacyGetPatternMatchScore(nameLower, queryLower))
              ELSE s7
    IN  IF s8 = 0 /\ Len(queryLower) >= 3
        THEN MathMax(s8, legacyGetFuzzyMatchScore(nameLower, queryLower))
        ELSE s8

\* The candidates the forEach pushes, from node k on.
RECURSIVE legacyCandidates(_, _, _)
legacyCandidates(nodeList, queryLower, k) ==
    IF k > Len(nodeList) THEN <<>>
    ELSE LET node == nodeList[k]
             score == legacyScore(node, queryLower)
         IN  (IF node.type = "destination" /\ score > 0
              THEN <<[node |-> node, score |-> score,
                      matchInfo |-> getMatchInfo(node, queryLower)]>>
              ELSE <<>>)
             \o legacyCandidates(nodeList, queryLower, k + 1)

\* The legacy searchDestinations(query) on this.state.libraryData, with
\* this.config = cfg, when it does not throw.
legacySearchDestinations(cfg, query, data) ==
    IF data.isNull THEN <<>>
    ELSE LET queryLower == trim(toLowerCase(query))
             ranked == slice(sort(legacyCandidates(data.nodes, queryLower, 1)), cfg)
         IN  [i \in 1..Len(ranked) |-> ranked[i].node]

(***************************************************************************)
(* WayfinderApp (modular, src/app.js): the search input handler and the    *)
(* suggestion list.                                                        *)
(***************************************************************************)
\* displaySuggestions: the container is emptied first; an empty list hides
\* the dropdown, otherwise one item per node is appended and it is shown.
displaySuggestions(suggestions) ==
    /\ suggestionItems' = suggestions
    /\ suggestionsShown' = (Len(suggestions) # 0)

\* hideSuggestions only removes the 'show' class; the items stay.
hideSuggestions ==
    /\ suggestionsShown' = FALSE
    /\ UNCHANGED suggestionItems

\* Where init stands: before the graph is fetched, before the floor maps are
\* fetched, before its last synchronous part, and after it.
InitPositions == {"constructed", "loadingMaps", "mapsLoaded", "idle"}

\* handleSearch(e) with e.target.value = inputValue, once the input listener
\* is registered; an exception thrown by searchDestinations leaves the
\* handler before displaySuggestions.
handleSearch ==
    /\ listeners
    /\ pc \in InitPositions
    /\ IF inputValue = <<>>
       THEN /\ hideSuggestions
            /\ UNCHANGED <<results, error>>
       ELSE IF searchDestinationsThrows(libraryData)
            THEN /\ error' = "TypeError"
                 /\ UNCHANGED <<results, suggestionItems, suggestionsShown>>
            ELSE /\ results' = searchDestinations(config, inputValue, libraryData)
                 /\ displaySuggestions(results')
                 /\ UNCHANGED error
    /\ pc' = "handled"
    /\ UNCHANGED <<config, libraryData, inputValue, previousResults, args, ret,
                   appVars, sessionVars>>

\* The scored candidates of every node, sorted as the results are.
sortedInPlace(data, query) ==
    LET scored == [i \in 1..Len(data.nodes) |->
                      [node  |-> data.nodes[i],
                       score |-> nodeScore(data.nodes[i], normalizeQuery(query))]]
        ranked == sort(scored)
    IN  [data EXCEPT !.nodes = [i \in 1..Len(ranked) |-> ranked[i].node]]

callSearchDestinations_SortsNodes ==
    /\ pc = "idle"
    /\ IF searchDestinationsThrows(libraryData)
       THEN /\ error' = "TypeError"
            /\ UNCHANGED <<results, libraryData>>
       ELSE /\ results' = searchDestinations(config, inputValue, libraryData)
            /\ libraryData' = sortedInPlace(libraryData, inputValue)
            /\ UNCHANGED error
    /\ pc' = "searched"
    /\ UNCHANGED <<config, inputValue, suggestionItems, suggestionsShown,
                   previousResults, args, ret, appVars, sessionVars>>

\* A direct call searchEngine.searchDestinations(inputValue, libraryData):
\* the call assigns only to its local results array.
callSearchDestinations ==
    /\ pc = "idle"
    /\ IF searchDestinationsThrows(libraryData)
       THEN /\ error' = "TypeError"
            /\ UNCHANGED results
       ELSE /\ results' = searchDestinations(config, inputValue, libraryData)
            /\ UNCHANGED error
    /\ pc' = "searched"
    /\ UNCHANGED <<config, libraryData, inputValue, suggestionItems,
                   suggestionsShown, previousResults, args, ret, appVars, sessionVars>>

\* The same call made a second time with the same arguments; previousResults
\* keeps what the first call returned.
callSearchDestinationsAgain ==
    /\ pc = "searched"
    /\ error = "none"
    /\ previousResults' = results
    /\ results' = searchDestinations(config, inputValue, libraryData)
    /\ pc' = "searchedTwice"
    /\ UNCHANGED <<config, libraryData, inputValue, suggestionItems,
                   suggestionsShown, error, args, ret, appVars, sessionVars>>

Next == handleSearch \/ callSearchDestinations \/ callSearchDestinationsAgain

(***************************************************************************)
(* Direct calls of the utility functions with the arguments args.          *)
(***************************************************************************)
NoReturn == [fn |-> "none", threw |-> FALSE, value |-> <<>>]

engineVars == <<config, libraryData, inputValue, results, suggestionItems,
                suggestionsShown, error, previousResults>>

\* levenshteinDistance(str1, str2) with str1 = args[1], str2 = args[2]
callLevenshteinDistance ==
    /\ pc = "idle"
    /\ ret' = [fn |-> "levenshteinDistance", threw |-> FALSE,
               value |-> levenshteinDistance(args[1], args[2])]
    /\ pc' = "returned"
    /\ UNCHANGED <<engineVars, args, appVars, sessionVars>>

\* highlightSearchTerm(name, searchTerm) with name = args[1], searchTerm = args[2]
callHighlightSearchTerm ==
    /\ pc = "idle"
    /\ LET out == highlightSearchTerm(args[1], args[2])
       IN  ret' = [fn |-> "highlightSearchTerm", threw |-> out.threw,
                   value |-> out.value]
    /\ pc' = "returned"
    /\ UNCHANGED <<engineVars, args, appVars, sessionVars>>

NextUtil == callLevenshteinDistance \/ callHighlightSearchTerm

\* The legacy application's searchDestinations on the graph and query the
\* engine was called with.
callLegacySearchDestinations ==
    /\ pc = "searched"
    /\ IF searchDestinationsThrows(libraryData)
       THEN /\ error' = "TypeError"
            /\ UNCHANGED legacyResults
       ELSE /\ legacyResults' = legacySearchDestinations(config, inputValue, libraryData)
            /\ UNCHANGED error
    /\ pc' = "compared"
    /\ UNCHANGED <<config, libraryData, inputValue, results, suggestionItems,
                   suggestionsShown, previousResults, args, ret, appVars, viewVars,
                   legacyVars>>

NextCompare == callSearchDestinations \/ callLegacySearchDestinations

(***************************************************************************)
(* WayfinderApp (modular, src/app.js): init and the handlers that select a *)
(* destination.  selectedDestination and currentRoute are <<>> for null    *)
(* and a one-element sequence otherwise.                                   *)
(***************************************************************************)
\* No ?dest= parameter, no pending timer.
NoDest == 0

\* The id no node has.
UnknownId == -1

IdLetters == <<"A", "B", "C", "D", "E", "F">>

\* The id string of the node the model numbers id.  Ids are opaque strings;
\* the second one holds a character that is reserved in a query string.
idText(id) ==
    IF id = 2
    THEN <<"F", "2", "_", "A", "+", "V">>
    ELSE <<"F", "1", "_", IdLetters[id]>>

\* The node number whose id string is text.
idNamed(text) ==
    IF \E id \in 1..Len(IdLetters) : idText(id) = text
    THEN CHOOSE id \in 1..Len(IdLetters) : idText(id) = text
    ELSE UnknownId

\* What follows apiBaseUrl in the text generateQRCode encodes for the
\* selected destination: the id is inserted as it is.
qrUrl(id) == <<"?", "d", "e", "s", "t", "=">> \o idText(id)

\* window.location.search of a page opened with that text: the query ends
\* at a "#", and the URL parser percent-encodes a space.
RECURSIVE locationSearchFrom(_, _)
locationSearchFrom(url, i) ==
    IF i > Len(url) \/ url[i] = "#"
    THEN <<>>
    ELSE (IF url[i] = " " THEN <<"%", "2", "0">> ELSE <<url[i]>>)
         \o locationSearchFrom(url, i + 1)

locationSearch(url) == locationSearchFrom(url, 1)

RECURSIVE splitOn(_, _, _, _)
splitOn(s, c, i, piece) ==
    IF i > Len(s)
    THEN <<piece>>
    ELSE IF s[i] = c
         THEN <<piece>> \o splitOn(s, c, i + 1, <<>>)
         ELSE splitOn(s, c, i + 1, Append(piece, s[i]))

\* The percent escapes the model knows; any other "%" is kept as it is.
percentCode(a, b) ==
    CASE a = "2" /\ b = "0" -> <<" ">>
      [] a = "2" /\ b = "B" -> <<"+">>
      [] a = "2" /\ b = "6" -> <<"&">>
      [] a = "2" /\ b = "5" -> <<"%">>
      [] OTHER                -> <<>>

RECURSIVE percentDecode(_, _)
percentDecode(s, i) ==
    IF i > Len(s)
    THEN <<>>
    ELSE IF s[i] = "%" /\ i + 2 <= Len(s) /\ percentCode(s[i + 1], s[i + 2]) # <<>>
         THEN percentCode(s[i + 1], s[i + 2]) \o percentDecode(s, i + 3)
         ELSE <<s[i]>> \o percentDecode(s, i + 1)

\* application/x-www-form-urlencoded decoding of a name or a value: "+"
\* is a space, then the percent escapes are decoded.
urlDecode(s) ==
    percentDecode([i \in 1..Len(s) |-> IF s[i] = "+" THEN " " ELSE s[i]], 1)

\* new URLSearchParams(search).get(name): the leading "?" is dropped, the
\* rest is split on "&", each piece at its first "="; the first pair with
\* the name gives the value, and there is none (null) without such a pair.
URLSearchParamsGet(search, name) ==
    LET query  == IF search # <<>> /\ search[1] = "?" THEN Tail(search) ELSE search
        pieces == SelectSeq(splitOn(query, "&", 1, <<>>), LAMBDA piece : piece # <<>>)
        pairOf(piece) ==
            LET eqs == {i \in 1..Len(piece) : piece[i] = "="}
                at  == IF eqs = {} THEN Len(piece) + 1
                       ELSE CHOOSE i \in eqs : \A j \in eqs : i <= j
            IN  [name  |-> urlDecode(SubSeq(piece, 1, at - 1)),
                 value |-> urlDecode(SubSeq(piece, at + 1, Len(piece)))]
        hits   == SelectSeq([i \in 1..Len(pieces) |-> pairOf(pieces[i])],
                            LAMBDA pair : pair.name = name)
    IN  IF hits = <<>> THEN [isNull |-> TRUE, value |-> <<>>]
        ELSE [isNull |-> FALSE, value |-> hits[1].value]

\* checkUrlParameters: the node number the 500 ms timer is armed with, NoDest
\* when none is armed.  A null or empty parameter is falsy.
checkUrlParameters(search) ==
    LET destId  == URLSearchParamsGet(search, <<"d", "e", "s", "t">>)
        startId == URLSearchParamsGet(search, <<"s", "t", "a", "r", "t">>)
        endId   == URLSearchParamsGet(search, <<"e", "n", "d">>)
    IN  IF destId.value # <<>>
        THEN idNamed(destId.value)
        ELSE IF startId.value # <<>> /\ endId.value # <<>>
             THEN idNamed(endId.value)
             ELSE NoDest

\* The timer armed when the page is opened with the text encoded for the
\* node numbered dest, and with no parameters for NoDest.
armedBy(dest) ==
    IF dest = NoDest THEN NoDest
    ELSE checkUrlParameters(locationSearch(qrUrl(dest)))

\* armedBy as a table, computed once.
timerArmedFor == [dest \in 0..Len(IdLetters) |-> armedBy(dest)]

\* What fetch('./data/library_graph.json') answers: fetched is FALSE when
\* the promise rejects, ok is response.ok, validJson is FALSE when
\* response.json() rejects, body is what it resolves to.
OkResponse(body) ==
    [fetched |-> TRUE, ok |-> TRUE, validJson |-> TRUE, body |-> body]

initFrame == <<config, inputValue, results, suggestionItems, suggestionsShown,
               error, previousResults, args, ret, response, floorMapsResponse,
               urlDest, selectedDestination, currentRoute, view, sessionVars>>

loadLibraryData_RegistersListeners ==
    /\ pc = "constructed"
    /\ listeners' = TRUE
    /\ IF response.fetched /\ response.validJson
       THEN /\ libraryData' = response.body
            /\ pc' = "loadingMaps"
            /\ UNCHANGED screen
       ELSE /\ pc' = "failed"
            /\ screen' = "error"
            /\ UNCHANGED libraryData
    /\ UNCHANGED <<initFrame, floorMaps, deepLinkTimer>>

\* init up to the end of await this.loadLibraryData(): the body is assigned
\* whatever response.ok is; a rejected fetch or json() is caught by init,
\* which shows the error screen.
loadLibraryData ==
    /\ pc = "constructed"
    /\ IF response.fetched /\ response.validJson
       THEN /\ libraryData' = response.body
            /\ pc' = "loadingMaps"
            /\ UNCHANGED screen
       ELSE /\ pc' = "failed"
            /\ screen' = "error"
            /\ UNCHANGED libraryData
    /\ UNCHANGED <<initFrame, floorMaps, listeners, deepLinkTimer>>

\* await loadFloorMaps(): it throws when a floor map cannot be fetched, and
\* init then shows the error screen.
loadFloorMaps ==
    /\ pc = "loadingMaps"
    /\ IF floorMapsResponse = "ok"
       THEN /\ floorMaps' = "loaded"
            /\ pc' = "mapsLoaded"
            /\ UNCHANGED screen
       ELSE /\ pc' = "failed"
            /\ screen' = "error"
            /\ UNCHANGED floorMaps
    /\ UNCHANGED <<initFrame, libraryData, listeners, deepLinkTimer>>

\* The rest of init: setupEventListeners, renderFloor(1),
\* checkUrlParameters (which arms the 500 ms timer when the URL names a
\* destination) and hideLoadingScreen.  urlDest is the node whose handoff
\* URL the page was opened with.
setupEventListeners ==
    /\ pc = "mapsLoaded"
    /\ listeners' = TRUE
    /\ deepLinkTimer' = timerArmedFor[urlDest]
    /\ screen' = "app"
    /\ pc' = "idle"
    /\ UNCHANGED <<initFrame, libraryData, floorMaps>>

\* A lookup that ignores the key and takes the first entry of paths.
routeOf_FirstEntry(data, nodeId) ==
    IF data.paths = <<>> THEN <<>> ELSE <<data.paths[1].steps>>

\* libraryData.paths[`F1_KIOSK_A-${nodeId}`]: <<>> when there is no entry.
routeOf(data, nodeId) ==
    LET hits == SelectSeq(data.paths, LAMBDA p : p.end = nodeId)
    IN  IF hits = <<>> THEN <<>> ELSE <<hits[1].steps>>

\* Nothing is highlighted on the map.
NoHighlight == [route |-> <<>>, floor |-> 0, dest |-> <<>>]

\* displayRoute(route) with this.state.selectedDestination = dest: the map
\* highlights the route on the floor shown and marks the destination.
displayRoute(route, dest) ==
    mapHighlight' = [route |-> route, floor |-> currentFloor, dest |-> <<dest>>]

\* selectDestination(nodeId); reading nodes of a null graph, find of an
\* absent nodes, and indexing an absent paths throw.
selectDestination(nodeId) ==
    IF libraryData.isNull \/ ~libraryData.hasNodes
    THEN /\ error' = "TypeError"
         /\ UNCHANGED <<selectedDestination, suggestionsShown, currentRoute, view,
                        mapHighlight>>
    ELSE LET found == SelectSeq(libraryData.nodes, LAMBDA n : n.id = nodeId)
         IN  IF found = <<>>
             THEN UNCHANGED <<selectedDestination, suggestionsShown, currentRoute,
                              view, error, mapHighlight>>
             ELSE /\ selectedDestination' = <<found[1]>>
                  /\ suggestionsShown' = FALSE
                  /\ IF ~libraryData.hasPaths
                     THEN /\ error' = "TypeError"
                          /\ UNCHANGED <<currentRoute, view, mapHighlight>>
                     ELSE IF routeOf(libraryData, nodeId) # <<>>
                          THEN /\ currentRoute' = routeOf(libraryData, nodeId)
                               /\ displayRoute(routeOf(libraryData, nodeId), found[1])
                               /\ view' = "directions"
                               /\ UNCHANGED error
                          ELSE UNCHANGED <<currentRoute, view, error, mapHighlight>>

Bathroom == <<"b", "a", "t", "h", "r", "o", "o", "m">>
Study == <<"s", "t", "u", "d", "y">>
GroupRoom == <<"g", "r", "o", "u", "p", " ", "r", "o", "o", "m">>

Categories == {"restroom", "study", "computer", "other"}

\* categoryMap[category] || []
categoryMap(category) ==
    CASE category = "restroom" -> {<<"r", "e", "s", "t", "r", "o", "o", "m">>, Bathroom}
      [] category = "study"    -> {Study, GroupRoom}
      [] category = "computer" -> {<<"c", "o", "m", "p", "u", "t", "e", "r">>, <<"l", "a", "b">>}
      [] OTHER                 -> {}

\* The filter of handleCategorySelect: the name is lower-cased, the search
\* keywords are compared as they are.
matchesCategory(node, keywords) ==
    /\ node.type = "destination"
    /\ \E k \in keywords :
          \/ includes(toLowerCase(node.name), k)
          \/ /\ node.hasKeywords
             /\ \E i \in 1..Len(node.search_keywords) :
                   includes(node.search_keywords[i], k)

sessionFrame == <<config, libraryData, inputValue, results, pc, previousResults,
                  args, ret, response, floorMapsResponse, floorMaps, listeners,
                  screen, urlDest, legacyResults, currentFloor, rehighlightTimers,
                  isMobileView, legacyVars>>

handleCategorySelect(category) ==
    /\ listeners
    /\ IF libraryData.isNull \/ ~libraryData.hasNodes
       THEN /\ error' = "TypeError"
            /\ UNCHANGED <<selectedDestination, suggestionsShown, currentRoute,
                           view, suggestionItems, mapHighlight>>
       ELSE LET matches == SelectSeq(libraryData.nodes,
                               LAMBDA n : matchesCategory(n, categoryMap(category)))
            IN  IF Len(matches) = 1
                THEN /\ selectDestination(matches[1].id)
                     /\ UNCHANGED suggestionItems
                ELSE IF Len(matches) > 1
                     THEN /\ displaySuggestions(matches)
                          /\ UNCHANGED <<selectedDestination, currentRoute, view,
                                         error, mapHighlight>>
                     ELSE UNCHANGED <<selectedDestination, suggestionsShown,
                                      currentRoute, view, suggestionItems, error,
                                      mapHighlight>>
    /\ UNCHANGED <<sessionFrame, deepLinkTimer>>

\* A click on a category button.
clickCategory == \E category \in Categories : handleCategorySelect(category)

\* A click on a displayed suggestion: selectDestination(node.id).
clickSuggestion ==
    /\ suggestionsShown
    /\ \E i \in 1..Len(suggestionItems) : selectDestination(suggestionItems[i].id)
    /\ UNCHANGED <<sessionFrame, deepLinkTimer, suggestionItems>>

\* The timer armed by checkUrlParameters fires: selectDestination(destId).
deepLinkFires ==
    /\ deepLinkTimer # NoDest
    /\ selectDestination(deepLinkTimer)
    /\ deepLinkTimer' = NoDest
    /\ UNCHANGED <<sessionFrame, suggestionItems>>

Floors == {1, 2}

\* No more floor switches are taken while this many timers are pending.
MaxTimers == 2

\* switchFloor(floor), called while this.state.currentRoute = route and
\* this.state.selectedDestination = dest: the floor is rendered anew, and
\* when a route is active a timer is set that captures floor and dest.
\* Two pending timers with the same captures have the same effect when they
\* fire, so the pending timers are kept as a set.
switchFloor(floor, route, dest) ==
    IF currentFloor = floor
    THEN UNCHANGED <<currentFloor, rehighlightTimers>>
    ELSE /\ currentFloor' = floor
         /\ rehighlightTimers' =
                IF route # <<>>
                THEN rehighlightTimers \cup {[floor |-> floor, dest |-> dest]}
                ELSE rehighlightTimers

selectionFrame == <<config, libraryData, inputValue, results, pc, previousResults,
                    args, ret, response, floorMapsResponse, floorMaps, listeners,
                    screen, urlDest, legacyResults, isMobileView, deepLinkTimer,
                    suggestionItems, suggestionsShown, error, legacyVars>>

\* A click on a floor button.
clickFloor ==
    /\ listeners
    /\ Cardinality(rehighlightTimers) < MaxTimers
    /\ \E floor \in Floors :
          /\ switchFloor(floor, currentRoute, selectedDestination)
          /\ mapHighlight' = IF currentFloor = floor THEN mapHighlight ELSE NoHighlight
    /\ UNCHANGED <<selectionFrame, selectedDestination, currentRoute, view>>

\* A click on the back button of the directions view: showSelectionView.
\* The route state is cleared before switchFloor(1) is called.
clickBack ==
    /\ listeners
    /\ view = "directions"
    /\ view' = "selection"
    /\ mapHighlight' = NoHighlight
    /\ selectedDestination' = <<>>
    /\ currentRoute' = <<>>
    /\ switchFloor(1, <<>>, <<>>)
    /\ UNCHANGED selectionFrame

\* A timer of switchFloor fires: highlightRoute(this.state.currentRoute,
\* floor) and addMarkers for the captured destination.
rehighlightFires ==
    /\ \E timer \in rehighlightTimers :
          /\ rehighlightTimers' = rehighlightTimers \ {timer}
          /\ mapHighlight' = [route |-> currentRoute, floor |-> timer.floor,
                              dest |-> timer.dest]
    /\ UNCHANGED <<selectionFrame, selectedDestination, currentRoute, view,
                   currentFloor>>

\* What a user and the timers can do once init has finished.
NextSession ==
    \/ handleSearch
    \/ clickCategory
    \/ clickSuggestion
    \/ deepLinkFires
    \/ clickFloor
    \/ clickBack
    \/ rehighlightFires

NextApp ==
    \/ loadLibraryData
    \/ loadFloorMaps
    \/ setupEventListeners
    \/ handleSearch
    \/ clickCategory
    \/ clickSuggestion
    \/ deepLinkFires

(***************************************************************************)
(* Inputs.                                                                 *)
(***************************************************************************)
SeqsUpTo(S, n) == UNION {[1..k -> S] : k \in 0..n}

Node(name, type, hasKeywords, keywords) ==
    [name |-> name, type |-> type, hasKeywords |-> hasKeywords,
     search_keywords |-> keywords, floor |-> 1]

\* The node on another floor.
OnFloor(node, floor) == [node EXCEPT !.floor = floor]

\* A graph whose i-th node is the i-th template with id i; paths holds the
\* entries [end, steps] of libraryData.paths, the entry of key
\* "F1_KIOSK_A-<id>" having end = id.
Graph(templates) ==
    [isNull |-> FALSE, hasNodes |-> TRUE, hasPaths |-> TRUE, paths |-> <<>>,
     nodes  |-> [i \in 1..Len(templates) |->
                    [id |-> i, name |-> templates[i].name,
                     type |-> templates[i].type,
                     hasKeywords |-> templates[i].hasKeywords,
                     search_keywords |-> templates[i].search_keywords,
                     floor |-> templates[i].floor]]]

\* libraryData that is null or undefined
NullGraph ==
    [isNull |-> TRUE, hasNodes |-> FALSE, hasPaths |-> FALSE, paths |-> <<>>,
     nodes |-> <<>>]

\* libraryData that is an object without a nodes property, such as {}
EmptyObject ==
    [isNull |-> FALSE, hasNodes |-> FALSE, hasPaths |-> FALSE, paths |-> <<>>,
     nodes |-> <<>>]

Room2B == <<"R", "o", "o", "m", " ", "2", "B">>
BreakRoom == <<"2", "n", "d", " ", "F", "l", "o", "o", "r", " ", "B", "r", "e", "a", "k", " ", "R", "o", "o", "m">>
Lab == <<"L", "a", "b">>
AnnexC == <<"A", "n", "n", "e", "x", " ", "C">>
Stairs2B == <<"S", "t", "a", "i", "r", "s", " ", "2", "B">>
Restroom == <<"r", "e", "s", "t", "r", "o", "o", "m">>
Computer == <<"c", "o", "m", "p", "u", "t", "e", "r">>
LibraryCommons == <<"L", "i", "b", "r", "a", "r", "y", " ", "C", "o", "m", "m", "o", "n", "s">>
MensRestroom == <<"M", "e", "n", "s", " ", "R", "e", "s", "t", "r", "o", "o", "m">>
Libary == <<"l", "i", "b", "a", "r", "y">>
Restrm == <<"r", "e", "s", "t", "r", "m">>

RichTemplates ==
    { Node(Room2B, "destination", FALSE, <<>>),
      Node(BreakRoom, "destination", FALSE, <<>>),
      Node(Lab, "destination", TRUE, <<Computer>>),
      Node(AnnexC, "destination", TRUE, <<Restroom>>),
      Node(Stairs2B, "connector", FALSE, <<>>) }

PlainTemplates ==
    { Node(Lab, "destination", TRUE, <<Computer>>),
      Node(Stairs2B, "connector", FALSE, <<>>) }

RankGraphs ==
    {NullGraph, EmptyObject}
    \cup {Graph(t) : t \in SeqsUpTo(RichTemplates, MaxNodes)}
    \cup {Graph(t) : t \in SeqsUpTo(PlainTemplates, MaxLongNodes)}

RankQueries ==
    { <<>>, <<" ", " ">>, <<"2", "b">>, <<"l", "a", "b">>, <<"L", "A", "B", " ">>, <<"a">>, <<"r", "e", "s", "t", "r", "o", "o", "m">> }

\* The constructor argument: absent, an object without maxSuggestions, or an
\* object that sets it.
ConfigArgs ==
    { [present |-> FALSE, hasMax |-> FALSE, maxSuggestions |-> 0],
      [present |-> TRUE,  hasMax |-> FALSE, maxSuggestions |-> 0],
      [present |-> TRUE,  hasMax |-> TRUE,  maxSuggestions |-> 1],
      [present |-> TRUE,  hasMax |-> TRUE,  maxSuggestions |-> 2] }

\* this.config of WayfinderApp, handed to new SearchEngine(this.config)
AppConfig == [present |-> TRUE, hasMax |-> TRUE, maxSuggestions |-> 6]

Alphabet == {"B", "2", " "}

\* Every short query over the alphabet, and a few longer ones.
ProbeQueries ==
    SeqsUpTo(Alphabet, MaxQueryLen)
    \cup { <<"2", "b">>, <<"2", "B", "B">>, <<"B", "2", "B">>, <<" ", "2", "B">>, <<"l", "a", "b">> }
    \cup { Libary, Restrm, Restroom }

ProbeKeywords == <<<<"2", "B">>, <<"B">>, <<"B", "2", "B", "B">>>>

\* Every short name over the alphabet, and two longer ones that a
\* three-character query can only match approximately.
ProbeNames ==
    SeqsUpTo(Alphabet, MaxNameLen)
    \cup { <<"2", "B", "2", "B">>, <<"L", "a", "b", " ", "B", "2", "2", "B">> }

Companion == <<"L", "a", "b", " ", "2", "B">>

\* Two nodes: a fixed destination first, then the node under test.
ProbeGraphs ==
    { Graph(<<Node(Companion, "destination", FALSE, <<>>),
              Node(name, "destination", hasKeywords, ProbeKeywords)>>) :
        name \in ProbeNames, hasKeywords \in BOOLEAN }
    \cup { Graph(<<Node(BreakRoom, "destination", FALSE, <<>>),
                   Node(Room2B, "destination", FALSE, <<>>)>>),
           Graph(<<Node(LibraryCommons, "destination", FALSE, <<>>),
                   Node(MensRestroom, "destination", FALSE, <<>>)>>),
           Graph(<<Node(Lab, "destination", TRUE, <<Computer>>),
                   Node(AnnexC, "destination", TRUE, <<Restroom>>)>>) }

\* No observer is stored and none is orphaned.
NoObserver == [stored |-> "none", orphaned |-> FALSE]

\* What the legacy constructor leaves of the timers, the highlight and the
\* observers: nothing is pending.
legacyConstructed ==
    /\ searchTimers = {}
    /\ timeout = 0
    /\ inputEvents = 0
    /\ lastHandled = 0
    /\ highlighted = {}
    /\ floorSwitchTimers = {}
    /\ floorSwitchTimeout = 0
    /\ observerSetupTimers = 0
    /\ scrollObserver = NoObserver

\* The application after init has run to its end on the graph libraryData;
\* a graph that is absent is only handed to the engine directly.
\* dests holds what the URL can name: the timer of checkUrlParameters is
\* armed with it.
InitialisedWith(dests) ==
    /\ response = OkResponse(libraryData)
    /\ floorMapsResponse = "ok"
    /\ floorMaps = IF libraryData.isNull THEN "none" ELSE "loaded"
    /\ listeners = ~libraryData.isNull
    /\ screen = IF libraryData.isNull THEN "loading" ELSE "app"
    /\ urlDest \in dests
    /\ deepLinkTimer = timerArmedFor[urlDest]
    /\ selectedDestination = <<>>
    /\ currentRoute = <<>>
    /\ view = "selection"
    /\ legacyResults = <<>>
    /\ currentFloor = 1
    /\ rehighlightTimers = {}
    /\ mapHighlight = NoHighlight
    /\ isMobileView = FALSE
    /\ legacyConstructed

Initialised == InitialisedWith({NoDest})

InitWith(cfgArgs, graphs, queries) ==
    /\ config \in {SearchEngine(cfgArg) : cfgArg \in cfgArgs}
    /\ libraryData \in graphs
    /\ inputValue \in queries
    /\ results = <<>>
    /\ suggestionItems = <<>>
    /\ suggestionsShown = FALSE
    /\ pc = "idle"
    /\ error = "none"
    /\ previousResults = <<>>
    /\ args = <<<<>>, <<>>>>
    /\ ret = NoReturn
    /\ Initialised

Init == InitWith(ConfigArgs, RankGraphs, RankQueries)

Spec == Init /\ [][Next]_vars

InitScore == InitWith({AppConfig}, ProbeGraphs, ProbeQueries)

SpecScore == InitScore /\ [][Next]_vars

\* The legacy application always carries maxSuggestions in its config.
CompareConfigs ==
    { [present |-> TRUE, hasMax |-> TRUE, maxSuggestions |-> 1], AppConfig }

CompareGraphs ==
    ProbeGraphs \cup {NullGraph, EmptyObject}
    \cup {Graph(t) : t \in SeqsUpTo(RichTemplates, 2)}

InitCompare == InitWith(CompareConfigs, CompareGraphs, ProbeQueries \cup RankQueries)

SpecCompare == InitCompare /\ [][NextCompare]_vars

MaxTextLen == 3
MaxTermLen == 2

UtilAlphabet == {"a", "A", "."}

\* Every pair of short strings over the alphabet, and a few longer pairs.
UtilArgs ==
    (SeqsUpTo(UtilAlphabet, MaxTextLen) \X SeqsUpTo(UtilAlphabet, MaxTermLen))
    \cup (SeqsUpTo(UtilAlphabet, MaxTermLen) \X SeqsUpTo(UtilAlphabet, MaxTextLen))
    \cup { <<Room2B, <<"2", "b">>>>,
           <<<<"a", "+", "b", "(", "A", "+">>, <<"+">>>>,
           <<<<"(", "a", ")", "(">>, <<"(">>>>,
           <<<<"a", "*", "a", "a">>, <<"a", "*">>>>,
           <<<<"a", "a", "A", "a", "a">>, <<"a", "a">>>>,
           <<<<"l", "i", "b", "r", "a", "r", "y">>, Libary>>,
           <<Restrm, Restroom>> }

InitUtil ==
    /\ config = SearchEngine(AppConfig)
    /\ libraryData = NullGraph
    /\ inputValue = <<>>
    /\ results = <<>>
    /\ suggestionItems = <<>>
    /\ suggestionsShown = FALSE
    /\ pc = "idle"
    /\ error = "none"
    /\ previousResults = <<>>
    /\ args \in UtilArgs
    /\ ret = NoReturn
    /\ Initialised

SpecUtil == InitUtil /\ [][NextUtil]_vars

MaxAppNodes == 2

AppTemplates ==
    { Node(Lab, "destination", TRUE, <<Computer>>),
      Node(MensRestroom, "destination", FALSE, <<>>),
      Node(Stairs2B, "connector", FALSE, <<>>) }

\* The precomputed route from the kiosk to node id.
Route(id) == <<[instruction |-> "walk", floor |-> 1, path_id |-> id]>>

\* The graph of the templates with a route to each node of ends, or without
\* the paths property.
AppGraph(templates, ends, hasPaths) ==
    [Graph(templates) EXCEPT
        !.hasPaths = hasPaths,
        !.paths = SelectSeq([i \in 1..Len(templates) |-> [end |-> i, steps |-> Route(i)]],
                            LAMBDA p : hasPaths /\ p.end \in ends)]

AppGraphs ==
    {AppGraph(t, 1..Len(t), TRUE) : t \in SeqsUpTo(AppTemplates, MaxAppNodes)}
    \cup {AppGraph(t, {1}, TRUE) : t \in SeqsUpTo(AppTemplates, MaxAppNodes)}
    \cup {AppGraph(t, {}, FALSE) : t \in SeqsUpTo(AppTemplates, MaxAppNodes)}

\* A graph; a rejected fetch; a body that is not JSON, with status 200 and
\* with an error status; an error status with a JSON body that is no graph.
Responses ==
    {OkResponse(g) : g \in AppGraphs}
    \cup { [fetched |-> FALSE, ok |-> FALSE, validJson |-> FALSE, body |-> EmptyObject],
           [fetched |-> TRUE,  ok |-> TRUE,  validJson |-> FALSE, body |-> EmptyObject],
           [fetched |-> TRUE,  ok |-> FALSE, validJson |-> FALSE, body |-> EmptyObject],
           [fetched |-> TRUE,  ok |-> FALSE, validJson |-> TRUE,  body |-> EmptyObject] }

AppQueries == { <<>>, <<" ">>, <<"l", "a", "b">>, Restrm }

\* No ?dest= parameter, the id of a node, and an id that no node has.
UrlDests == {NoDest} \cup (1..(MaxAppNodes + 1))

\* The state the WayfinderApp constructor leaves, before init has awaited
\* anything.
InitApp ==
    /\ config = SearchEngine(AppConfig)
    /\ libraryData = NullGraph
    /\ inputValue \in AppQueries
    /\ results = <<>>
    /\ suggestionItems = <<>>
    /\ suggestionsShown = FALSE
    /\ pc = "constructed"
    /\ error = "none"
    /\ previousResults = <<>>
    /\ args = <<<<>>, <<>>>>
    /\ ret = NoReturn
    /\ response \in Responses
    /\ floorMapsResponse \in {"ok", "fail"}
    /\ floorMaps = "none"
    /\ listeners = FALSE
    /\ screen = "loading"
    /\ urlDest \in UrlDests
    /\ deepLinkTimer = NoDest
    /\ selectedDestination = <<>>
    /\ currentRoute = <<>>
    /\ view = "selection"
    /\ legacyResults = <<>>
    /\ currentFloor = 1
    /\ rehighlightTimers = {}
    /\ mapHighlight = NoHighlight
    /\ isMobileView = FALSE
    /\ legacyConstructed

SpecApp == InitApp /\ [][NextApp]_vars

\* The same application with its scheduling: a settled fetch resumes init,
\* and the event loop runs an armed timer.  Nothing obliges the user to act.
SpecAppLive ==
    /\ InitApp
    /\ [][NextApp]_vars
    /\ WF_vars(loadLibraryData)
    /\ WF_vars(loadFloorMaps)
    /\ WF_vars(setupEventListeners)
    /\ WF_vars(deepLinkFires)

\* Two destinations, the second on floor 2, and a connector.
SessionTemplates ==
    <<Node(Lab, "destination", TRUE, <<Computer>>),
      OnFloor(Node(MensRestroom, "destination", FALSE, <<>>), 2),
      Node(Stairs2B, "connector", FALSE, <<>>)>>

\* Every destination has a route; only the first has; paths is missing.
SessionGraphs ==
    { AppGraph(SessionTemplates, {1, 2}, TRUE),
      AppGraph(SessionTemplates, {1}, TRUE),
      AppGraph(SessionTemplates, {}, FALSE) }

SessionQueries == { <<>>, <<"l", "a", "b">> }

\* No ?dest= parameter, the id of each node, and an id that no node has.
SessionDests == {NoDest} \cup (1..(Len(SessionTemplates) + 1))

\* The modular application after init has finished on a loaded graph, with
\* the deep-link timer armed when the URL names a destination.
InitSession ==
    /\ config = SearchEngine(AppConfig)
    /\ libraryData \in SessionGraphs
    /\ inputValue \in SessionQueries
    /\ results = <<>>
    /\ suggestionItems = <<>>
    /\ suggestionsShown = FALSE
    /\ pc = "idle"
    /\ error = "none"
    /\ previousResults = <<>>
    /\ args = <<<<>>, <<>>>>
    /\ ret = NoReturn
    /\ InitialisedWith(SessionDests)

SpecSession == InitSession /\ [][NextSession]_vars

(***************************************************************************)
(* WayfinderApp (legacy, src/app.js:8-1214): init and a session.           *)
(***************************************************************************)
\* What the user can type into the search box.
LegacyQueries == { <<>>, <<"r">>, <<"z", "z">> }

\* No more input events are taken than this.
MaxInputEvents == 2

\* No more deferred observer setups are pending than this.
MaxSetupTimers == 1

\* The timer a legacy switchFloor sets: its callback captures nothing.
LegacyTimer == [floor |-> 0, dest |-> <<>>]

\* What no legacy handler assigns once init is over, the graph apart.
legacyFixed == <<config, results, previousResults, args, ret, response,
                 floorMapsResponse, floorMaps, listeners, screen, urlDest,
                 deepLinkTimer, pc>>

\* A debounce that does not cancel the pending timer.
debounce_NoClear(event) ==
    /\ searchTimers' = searchTimers \cup {event}
    /\ timeout' = event

\* executedFunction of debounce(func, wait), called for the input event
\* numbered event: clearTimeout(timeout); timeout = setTimeout(later, wait).
debounce(event) ==
    /\ searchTimers' = (searchTimers \ {timeout}) \cup {event}
    /\ timeout' = event

\* hideSuggestions: the dropdown is closed and every highlight is removed.
legacyHideSuggestions ==
    /\ suggestionsShown' = FALSE
    /\ highlighted' = {}

\* displaySuggestions: an empty list only hides the dropdown and leaves the
\* items of the container; otherwise the container is rebuilt and shown.
legacyDisplaySuggestions(suggestions) ==
    IF Len(suggestions) = 0
    THEN /\ legacyHideSuggestions
         /\ UNCHANGED suggestionItems
    ELSE /\ suggestionItems' = suggestions
         /\ highlighted' = {}
         /\ suggestionsShown' = TRUE

\* generateRoute('F1_KIOSK_A', endId): <<>> for null.
generateRoute(data, endId) ==
    IF data.isNull \/ ~data.hasPaths THEN <<>> ELSE routeOf(data, endId)

\* displayRoute(route) for the destination dest: the steps are rendered
\* anew, so an observer of the old steps sees nothing any more; the route
\* is highlighted on the floor shown; the mobile layout defers the setup of
\* the scroll-based floor switching by 100 ms.
legacyDisplayRoute(route, dest) ==
    /\ mapHighlight' = [route |-> route, floor |-> currentFloor, dest |-> <<dest>>]
    /\ scrollObserver' =
          [stored   |-> IF scrollObserver.stored = "none" THEN "none" ELSE "stale",
           orphaned |-> FALSE]
    /\ observerSetupTimers' =
          IF isMobileView /\ observerSetupTimers < MaxSetupTimers
          THEN observerSetupTimers + 1
          ELSE observerSetupTimers

legacySelectionVars == <<selectedDestination, currentRoute, view, mapHighlight,
                         observerSetupTimers, scrollObserver, error,
                         suggestionsShown, highlighted>>

\* selectDestination(nodeId) on the graph data.
legacySelectDestination(data, nodeId) ==
    IF data.isNull \/ ~data.hasNodes
    THEN /\ error' = "TypeError"
         /\ UNCHANGED <<selectedDestination, currentRoute, view, mapHighlight,
                        observerSetupTimers, scrollObserver, suggestionsShown,
                        highlighted>>
    ELSE LET found == SelectSeq(data.nodes, LAMBDA n : n.id = nodeId)
         IN  IF found = <<>>
             THEN UNCHANGED legacySelectionVars
             ELSE /\ selectedDestination' = <<found[1]>>
                  /\ legacyHideSuggestions
                  /\ UNCHANGED error
                  /\ IF generateRoute(data, nodeId) # <<>>
                     THEN /\ currentRoute' = generateRoute(data, nodeId)
                          /\ legacyDisplayRoute(generateRoute(data, nodeId), found[1])
                          /\ view' = "directions"
                     ELSE UNCHANGED <<currentRoute, view, mapHighlight,
                                      observerSetupTimers, scrollObserver>>

\* What generateQRCode of the legacy application puts behind the path.
legacyQrUrl(id) ==
    <<"?", "s", "t", "a", "r", "t", "=", "F", "1", "_", "K", "I", "O", "S", "K",
      "_", "A", "&", "e", "n", "d", "=">> \o idText(id)

\* checkUrlParameters of the legacy application: the node to select at
\* once, NoDest when the URL does not carry both start and end.
legacyCheckUrlParameters(search) ==
    LET startId == URLSearchParamsGet(search, <<"s", "t", "a", "r", "t">>)
        endId   == URLSearchParamsGet(search, <<"e", "n", "d">>)
    IN  IF startId.value # <<>> /\ endId.value # <<>>
        THEN idNamed(endId.value)
        ELSE NoDest

legacySelectedAtInit ==
    [dest \in 0..Len(IdLetters) |->
        IF dest = NoDest THEN NoDest
        ELSE legacyCheckUrlParameters(locationSearch(legacyQrUrl(dest)))]

\* init: loadLibraryData throws on a rejected fetch, a non-OK status and a
\* body that is not JSON; loadFloorMaps throws when a map is missing; then
\* the listeners are registered and checkUrlParameters selects at once.  An
\* exception anywhere shows the error screen.
legacyInit ==
    /\ pc = "constructed"
    /\ IF response.fetched /\ response.ok /\ response.validJson
       THEN /\ libraryData' = response.body
            /\ IF floorMapsResponse = "ok"
               THEN /\ floorMaps' = "loaded"
                    /\ listeners' = TRUE
                    /\ IF legacySelectedAtInit[urlDest] # NoDest
                       THEN legacySelectDestination(response.body,
                                                    legacySelectedAtInit[urlDest])
                       ELSE UNCHANGED legacySelectionVars
                    /\ IF error' = "none"
                       THEN pc' = "idle" /\ screen' = "app"
                       ELSE pc' = "failed" /\ screen' = "error"
               ELSE /\ pc' = "failed"
                    /\ screen' = "error"
                    /\ UNCHANGED <<floorMaps, listeners, legacySelectionVars>>
       ELSE /\ pc' = "failed"
            /\ screen' = "error"
            /\ UNCHANGED <<libraryData, floorMaps, listeners, legacySelectionVars>>
    /\ UNCHANGED <<config, results, previousResults, args, ret, response,
                   floorMapsResponse, urlDest, deepLinkTimer, inputValue,
                   suggestionItems, legacyResults, currentFloor, rehighlightTimers,
                   isMobileView, debounceVars, floorSwitchTimers,
                   floorSwitchTimeout>>


\* An input event on the search box: the value changes and the debounced
\* handleSearch is called with the event.
legacyInput ==
    /\ pc = "idle"
    /\ inputEvents < MaxInputEvents
    /\ \E value \in LegacyQueries : inputValue' = value
    /\ inputEvents' = inputEvents + 1
    /\ debounce(inputEvents + 1)
    /\ UNCHANGED <<legacyFixed, libraryData, lastHandled, suggestionItems,
                   suggestionsShown, highlighted, legacyResults, error,
                   selectedDestination, currentRoute, view, viewVars, scrollVars>>

\* The graph the legacy application is served: two destinations with a
\* route, the second on floor 2, and a third destination without one.
LegacyTemplates ==
    <<Node(LibraryCommons, "destination", TRUE, <<Computer>>),
      OnFloor(Node(MensRestroom, "destination", FALSE, <<>>), 2),
      OnFloor(Node(Room2B, "destination", FALSE, <<>>), 2)>>

LegacyGraph == AppGraph(LegacyTemplates, {1, 2}, TRUE)

\* this.searchDestinations(query) on that graph for what can be asked,
\* computed once.
legacySearchTable ==
    [query \in LegacyQueries \cup {toLowerCase(trim(q)) : q \in LegacyQueries} |->
        legacySearchDestinations(SearchEngine(AppConfig), query, LegacyGraph)]

\* this.searchDestinations(query).
legacySearch(query) ==
    IF libraryData = LegacyGraph /\ config = SearchEngine(AppConfig)
          /\ query \in DOMAIN legacySearchTable
    THEN legacySearchTable[query]
    ELSE legacySearchDestinations(config, query, libraryData)

\* handleSearch(e): e.target.value is read when the handler runs.
legacyHandleSearch ==
    LET query == toLowerCase(trim(inputValue))
    IN  IF Len(query) = 0
        THEN /\ legacyHideSuggestions
             /\ UNCHANGED <<suggestionItems, error>>
        ELSE IF searchDestinationsThrows(libraryData)
             THEN /\ error' = "TypeError"
                  /\ UNCHANGED <<suggestionItems, suggestionsShown, highlighted>>
             ELSE /\ legacyDisplaySuggestions(legacySearch(query))
                  /\ UNCHANGED error

\* A timer of the debounce fires: later() clears the timeout variable's
\* timer and runs handleSearch with the event the timer was set for.
later ==
    /\ \E event \in searchTimers :
          /\ searchTimers' = (searchTimers \ {event}) \ {timeout}
          /\ lastHandled' = event
    /\ legacyHandleSearch
    /\ UNCHANGED <<legacyFixed, libraryData, inputValue, timeout, inputEvents,
                   legacyResults,
                   selectedDestination, currentRoute, view, viewVars, scrollVars>>

\* handleSearchSubmit: the first result of the trimmed input is selected.
handleSearchSubmit ==
    LET query == trim(inputValue)
    IN  IF query = <<>>
        THEN UNCHANGED legacySelectionVars
        ELSE IF searchDestinationsThrows(libraryData)
             THEN /\ error' = "TypeError"
                  /\ UNCHANGED <<selectedDestination, currentRoute, view, mapHighlight,
                                 observerSetupTimers, scrollObserver,
                                 suggestionsShown, highlighted>>
             ELSE \E suggestions \in {legacySearch(query)} :
                     IF Len(suggestions) > 0
                     THEN legacySelectDestination(libraryData, suggestions[1].id)
                     ELSE UNCHANGED legacySelectionVars

\* What a selection leaves alone.
legacySelectionFrame == <<legacyFixed, libraryData, inputValue, suggestionItems,
                          legacyResults, currentFloor, rehighlightTimers,
                          isMobileView, debounceVars, floorSwitchTimers,
                          floorSwitchTimeout>>

Keys == {"ArrowDown", "ArrowUp", "Enter", "Escape"}

\* querySelector('.suggestion-item.highlighted'): the first highlighted item.
firstHighlighted == CHOOSE i \in highlighted : \A j \in highlighted : i <= j

\* handleKeydown with ArrowUp moving down the list.
handleKeydown_UpMovesDown(key) ==
    /\ pc = "idle"
    /\ CASE key \in {"ArrowDown", "ArrowUp"} ->
              /\ highlighted' =
                    IF highlighted # {}
                    THEN (highlighted \ {firstHighlighted})
                         \cup {IF firstHighlighted < Len(suggestionItems)
                               THEN firstHighlighted + 1 ELSE 1}
                    ELSE IF Len(suggestionItems) > 0 THEN {1} ELSE {}
              /\ UNCHANGED <<selectedDestination, currentRoute, view, mapHighlight,
                             observerSetupTimers, scrollObserver, error,
                             suggestionsShown>>
         [] key = "Enter" ->
              IF highlighted # {}
              THEN legacySelectDestination(libraryData,
                                           suggestionItems[firstHighlighted].id)
              ELSE handleSearchSubmit
         [] key = "Escape" ->
              /\ legacyHideSuggestions
              /\ UNCHANGED <<selectedDestination, currentRoute, view, mapHighlight,
                             observerSetupTimers, scrollObserver, error>>
    /\ UNCHANGED legacySelectionFrame

\* handleKeydown(e) for e.key = key.
handleKeydown(key) ==
    /\ pc = "idle"
    /\ CASE key = "ArrowDown" ->
              /\ highlighted' =
                    IF highlighted # {}
                    THEN (highlighted \ {firstHighlighted})
                         \cup {IF firstHighlighted < Len(suggestionItems)
                               THEN firstHighlighted + 1 ELSE 1}
                    ELSE IF Len(suggestionItems) > 0 THEN {1} ELSE {}
              /\ UNCHANGED <<selectedDestination, currentRoute, view, mapHighlight,
                             observerSetupTimers, scrollObserver, error,
                             suggestionsShown>>
         [] key = "ArrowUp" ->
              /\ highlighted' =
                    IF highlighted # {}
                    THEN (highlighted \ {firstHighlighted})
                         \cup {IF firstHighlighted > 1
                               THEN firstHighlighted - 1 ELSE Len(suggestionItems)}
                    ELSE IF Len(suggestionItems) > 0 THEN {Len(suggestionItems)} ELSE {}
              /\ UNCHANGED <<selectedDestination, currentRoute, view, mapHighlight,
                             observerSetupTimers, scrollObserver, error,
                             suggestionsShown>>
         [] key = "Enter" ->
              IF highlighted # {}
              THEN legacySelectDestination(libraryData,
                                           suggestionItems[firstHighlighted].id)
              ELSE handleSearchSubmit
         [] key = "Escape" ->
              /\ legacyHideSuggestions
              /\ UNCHANGED <<selectedDestination, currentRoute, view, mapHighlight,
                             observerSetupTimers, scrollObserver, error>>
    /\ UNCHANGED legacySelectionFrame

\* A key pressed in the search box.
keydown == \E key \in Keys : handleKeydown(key)

\* The keywords of a category; the legacy filter lower-cases the search
\* keywords of a node as well.
legacyCategoryMap(category) ==
    CASE category = "restroom" -> {<<"r", "e", "s", "t", "r", "o", "o", "m">>, Bathroom,
                                   <<"w", "c">>}
      [] category = "study"    -> {Study, GroupRoom}
      [] category = "computer" -> {<<"c", "o", "m", "p", "u", "t", "e", "r">>,
                                   <<"l", "a", "b">>, <<"t", "e", "c", "h">>,
                                   <<"p", "r", "i", "n", "t", "i", "n", "g">>}
      [] OTHER                 -> {}

legacyMatchesCategory(node, keywords) ==
    /\ node.type = "destination"
    /\ \E k \in keywords :
          \/ /\ node.hasKeywords
             /\ \E i \in 1..Len(node.search_keywords) :
                   includes(toLowerCase(node.search_keywords[i]), toLowerCase(k))
          \/ includes(toLowerCase(node.name), toLowerCase(k))

\* A click on a category button: handleCategorySelect(category).
legacyClickCategory ==
    /\ pc = "idle"
    /\ \E category \in Categories :
          IF libraryData.isNull
          THEN UNCHANGED <<legacySelectionVars, suggestionItems>>
          ELSE IF ~libraryData.hasNodes
               THEN /\ error' = "TypeError"
                    /\ UNCHANGED <<selectedDestination, currentRoute, view,
                                   mapHighlight, observerSetupTimers, scrollObserver,
                                   suggestionsShown, highlighted, suggestionItems>>
               ELSE LET matchingNodes ==
                            SelectSeq(libraryData.nodes,
                                      LAMBDA n : legacyMatchesCategory(
                                                     n, legacyCategoryMap(category)))
                    IN  IF Len(matchingNodes) = 1
                        THEN /\ legacySelectDestination(libraryData, matchingNodes[1].id)
                             /\ UNCHANGED suggestionItems
                        ELSE IF Len(matchingNodes) > 1
                             THEN /\ legacyDisplaySuggestions(matchingNodes)
                                  /\ UNCHANGED <<selectedDestination, currentRoute,
                                                 view, mapHighlight,
                                                 observerSetupTimers, scrollObserver,
                                                 error>>
                             ELSE UNCHANGED <<legacySelectionVars, suggestionItems>>
    /\ UNCHANGED <<legacyFixed, libraryData, inputValue, legacyResults,
                   currentFloor, rehighlightTimers, isMobileView, debounceVars,
                   floorSwitchTimers, floorSwitchTimeout>>

\* A click on a suggestion of the open dropdown.
legacyClickSuggestion ==
    /\ pc = "idle"
    /\ suggestionsShown
    /\ \E i \in 1..Len(suggestionItems) :
          legacySelectDestination(libraryData, suggestionItems[i].id)
    /\ UNCHANGED legacySelectionFrame

\* switchFloor(floor) while this.state.currentRoute = route: the map of the
\* floor is loaded, and a timer re-highlights the route when one is active.
legacySwitchFloor(floor, route) ==
    IF currentFloor = floor
    THEN UNCHANGED <<currentFloor, rehighlightTimers>>
    ELSE /\ currentFloor' = floor
         /\ rehighlightTimers' =
                IF route # <<>> THEN rehighlightTimers \cup {LegacyTimer}
                ELSE rehighlightTimers

\* A click on a floor button.
legacyClickFloor ==
    /\ pc = "idle"
    /\ \E floor \in Floors :
          /\ legacySwitchFloor(floor, currentRoute)
          /\ mapHighlight' = IF currentFloor = floor THEN mapHighlight ELSE NoHighlight
    /\ UNCHANGED <<legacyFixed, libraryData, inputValue, suggestionItems,
                   suggestionsShown, highlighted, legacyResults, error,
                   selectedDestination, currentRoute, view, isMobileView,
                   debounceVars, scrollVars>>

\* showSelectionView without the clearTimeout of the floor switch.
showSelectionView_KeepsFloorTimer ==
    /\ pc = "idle"
    /\ view = "directions"
    /\ view' = "selection"
    /\ inputValue' = <<>>
    /\ legacyHideSuggestions
    /\ selectedDestination' = <<>>
    /\ currentRoute' = <<>>
    /\ mapHighlight' = NoHighlight
    /\ legacySwitchFloor(1, <<>>)
    /\ scrollObserver' = NoObserver
    /\ UNCHANGED <<legacyFixed, libraryData, suggestionItems, legacyResults, error,
                   isMobileView, debounceVars, observerSetupTimers,
                   floorSwitchTimers, floorSwitchTimeout>>

\* showSelectionView that forgets the graph.
showSelectionView_DropsGraph ==
    /\ pc = "idle"
    /\ view = "directions"
    /\ view' = "selection"
    /\ inputValue' = <<>>
    /\ legacyHideSuggestions
    /\ selectedDestination' = <<>>
    /\ currentRoute' = <<>>
    /\ mapHighlight' = NoHighlight
    /\ legacySwitchFloor(1, <<>>)
    /\ scrollObserver' = NoObserver
    /\ floorSwitchTimers' = floorSwitchTimers \ {floorSwitchTimeout}
    /\ libraryData' = [libraryData EXCEPT !.paths = <<>>]
    /\ UNCHANGED <<legacyFixed, suggestionItems, legacyResults, error,
                   isMobileView, debounceVars, observerSetupTimers,
                   floorSwitchTimeout>>

\* A click on the back button: showSelectionView.  The input is cleared
\* without an input event, the route state is cleared before switchFloor(1)
\* is called, the stored observer is disconnected and the timer named by
\* floorSwitchTimeout is cleared.
showSelectionView ==
    /\ pc = "idle"
    /\ view = "directions"
    /\ view' = "selection"
    /\ inputValue' = <<>>
    /\ legacyHideSuggestions
    /\ selectedDestination' = <<>>
    /\ currentRoute' = <<>>
    /\ mapHighlight' = NoHighlight
    /\ legacySwitchFloor(1, <<>>)
    /\ scrollObserver' = NoObserver
    /\ floorSwitchTimers' = floorSwitchTimers \ {floorSwitchTimeout}
    /\ UNCHANGED <<legacyFixed, libraryData, suggestionItems, legacyResults, error,
                   isMobileView, debounceVars, observerSetupTimers,
                   floorSwitchTimeout>>

\* The timer of switchFloor fires: highlightRouteOnMap(this.state.currentRoute)
\* filters the steps of the route, which throws when the route is null.
legacyRehighlightFires ==
    /\ \E timer \in rehighlightTimers : rehighlightTimers' = rehighlightTimers \ {timer}
    /\ IF currentRoute = <<>>
       THEN /\ error' = "TypeError"
            /\ mapHighlight' = NoHighlight
       ELSE /\ mapHighlight' = [route |-> currentRoute, floor |-> currentFloor,
                                dest |-> selectedDestination]
            /\ UNCHANGED error
    /\ UNCHANGED <<legacyFixed, libraryData, inputValue, suggestionItems,
                   suggestionsShown, highlighted, legacyResults,
                   selectedDestination, currentRoute, view, currentFloor,
                   isMobileView, debounceVars, scrollVars>>

\* The debounced handleResize runs: the layout follows the window width.
handleResize ==
    /\ pc = "idle"
    /\ \E mobile \in BOOLEAN : isMobileView' = mobile
    /\ UNCHANGED <<legacyFixed, libraryData, inputValue, suggestionItems,
                   suggestionsShown, highlighted, legacyResults, error,
                   selectedDestination, currentRoute, view, currentFloor,
                   rehighlightTimers, mapHighlight, debounceVars, scrollVars>>

\* The deferred setupScrollBasedFloorSwitching runs: in the mobile layout a
\* new observer of the rendered steps is stored; the one stored before is
\* not disconnected.
setupScrollBasedFloorSwitching ==
    /\ observerSetupTimers > 0
    /\ observerSetupTimers' = observerSetupTimers - 1
    /\ scrollObserver' =
          IF isMobileView
          THEN [stored   |-> "current",
                orphaned |-> scrollObserver.orphaned \/ scrollObserver.stored = "current"]
          ELSE scrollObserver
    /\ UNCHANGED <<legacyFixed, libraryData, inputValue, suggestionItems,
                   suggestionsShown, highlighted, legacyResults, error,
                   selectedDestination, currentRoute, view, viewVars, debounceVars,
                   floorSwitchTimers, floorSwitchTimeout>>

\* An observer reports a step of the shown directions that is scrolled into
\* view; the steps are not rendered while the directions view is hidden.
\* A step of another floor replaces the pending floor switch by a new one.
observerReports ==
    /\ view = "directions"
    /\ scrollObserver.stored = "current" \/ scrollObserver.orphaned
    /\ \E targetFloor \in Floors :
          IF targetFloor # currentFloor
          THEN /\ floorSwitchTimers' =
                     (floorSwitchTimers \ {floorSwitchTimeout}) \cup {targetFloor}
               /\ floorSwitchTimeout' = targetFloor
          ELSE UNCHANGED <<floorSwitchTimers, floorSwitchTimeout>>
    /\ UNCHANGED <<legacyFixed, libraryData, inputValue, suggestionItems,
                   suggestionsShown, highlighted, legacyResults, error,
                   selectedDestination, currentRoute, view, viewVars, debounceVars,
                   observerSetupTimers, scrollObserver>>

\* The 200 ms timer of the observer fires: switchFloor(targetFloor).
floorSwitchFires ==
    /\ \E targetFloor \in floorSwitchTimers :
          /\ floorSwitchTimers' = floorSwitchTimers \ {targetFloor}
          /\ legacySwitchFloor(targetFloor, currentRoute)
          /\ mapHighlight' = IF currentFloor = targetFloor THEN mapHighlight
                             ELSE NoHighlight
    /\ UNCHANGED <<legacyFixed, libraryData, inputValue, suggestionItems,
                   suggestionsShown, highlighted, legacyResults, error,
                   selectedDestination, currentRoute, view, isMobileView,
                   debounceVars, floorSwitchTimeout, observerSetupTimers,
                   scrollObserver>>

\* The search box: typing, the debounce timer, the keys,
\* and the selections and the back navigation that change the suggestions.
NextTyping ==
    \/ legacyInit
    \/ legacyInput
    \/ later
    \/ keydown
    \/ legacyClickCategory
    \/ legacyClickSuggestion
    \/ showSelectionView

\* The floors: selections, floor buttons, back navigation, the layout, and
\* the timers and observers that switch floors and re-highlight.
NextFloors ==
    \/ legacyInit
    \/ legacyClickCategory
    \/ legacyClickFloor
    \/ showSelectionView
    \/ legacyRehighlightFires
    \/ handleResize
    \/ setupScrollBasedFloorSwitching
    \/ observerReports
    \/ floorSwitchFires

\* The operations of a user (search, category and destination selection,
\* floor switch, back navigation, resize) with the timers of the search and
\* of the re-highlight.
NextLegacy ==
    \/ legacyInit
    \/ legacyInput
    \/ later
    \/ legacyClickCategory
    \/ legacyClickSuggestion
    \/ legacyClickFloor
    \/ showSelectionView
    \/ legacyRehighlightFires
    \/ handleResize

\* The graph, and a fetch that is rejected.
LegacyResponses ==
    { OkResponse(LegacyGraph),
      [fetched |-> FALSE, ok |-> FALSE, validJson |-> FALSE, body |-> EmptyObject] }

\* No handoff parameters, and the handoff URL of the first destination.
LegacyDests == {NoDest, 1}

\* The state the legacy constructor leaves: the layout follows the window
\* width, nothing is loaded and no timer is pending.
InitLegacy ==
    /\ config = SearchEngine(AppConfig)
    /\ libraryData = NullGraph
    /\ inputValue = <<>>
    /\ results = <<>>
    /\ suggestionItems = <<>>
    /\ suggestionsShown = FALSE
    /\ pc = "constructed"
    /\ error = "none"
    /\ previousResults = <<>>
    /\ args = <<<<>>, <<>>>>
    /\ ret = NoReturn
    /\ response \in LegacyResponses
    /\ floorMapsResponse \in {"ok", "fail"}
    /\ floorMaps = "none"
    /\ listeners = FALSE
    /\ screen = "loading"
    /\ urlDest \in LegacyDests
    /\ deepLinkTimer = NoDest
    /\ selectedDestination = <<>>
    /\ currentRoute = <<>>
    /\ view = "selection"
    /\ legacyResults = <<>>
    /\ currentFloor = 1
    /\ rehighlightTimers = {}
    /\ mapHighlight = NoHighlight
    /\ isMobileView \in BOOLEAN
    /\ legacyConstructed

SpecLegacy == InitLegacy /\ [][NextLegacy]_vars

SpecTyping == InitLegacy /\ [][NextTyping]_vars

\* The search box with the event loop: init resumes when the fetches are
\* settled, and a pending debounce timer fires.
SpecTypingLive ==
    /\ InitLegacy
    /\ [][NextTyping]_vars
    /\ WF_vars(legacyInit)
    /\ WF_vars(later)

SpecFloors == InitLegacy /\ [][NextFloors]_vars

(***************************************************************************)
(* Properties.                                                             *)
(***************************************************************************)
nodes == libraryData.nodes

queryLower == normalizeQuery(inputValue)

\* searchDestinations has been called and results holds what it returned.
searched == pc = "searched" \/ (pc = "handled" /\ inputValue # <<>>)

indexOf(node) == CHOOSE i \in 1..Len(nodes) : nodes[i] = node

positive == {i \in 1..Len(nodes) : isSearchable(nodes[i]) /\ nodeScore(nodes[i], queryLower) > 0}

returned == {results[i] : i \in 1..Len(results)}

\* maxSuggestions as the specification defines it: the configured value, and
\* 6 when the configuration supplies none.
claimedMaxSuggestions ==
    IF config.hasMax THEN config.maxSuggestions ELSE DefaultMaxSuggestions

\* C1: a query that is empty after trimming makes searchDestinations return
\* the empty sequence on a graph with nodes, and an input event with such a
\* value never leaves suggestions displayed.
C1_EmptyQueryReturnsEmpty ==
    /\ (searched /\ ~libraryData.isNull /\ nodes # <<>> /\ trim(inputValue) = <<>>)
          => results = <<>>
    /\ (pc = "handled" /\ trim(inputValue) = <<>>) => ~suggestionsShown

\* C2: the returned sequence is ordered by descending score, then by
\* ascending name length, then by position in libraryData.nodes.
C2_ResultsOrdered ==
    searched =>
        \A i, j \in 1..Len(results) :
            i < j =>
                LET a  == results[i]
                    b  == results[j]
                    sa == nodeScore(a, queryLower)
                    sb == nodeScore(b, queryLower)
                IN  \/ sa > sb
                    \/ sa = sb /\ Len(a.name) < Len(b.name)
                    \/ sa = sb /\ Len(a.name) = Len(b.name) /\ indexOf(a) < indexOf(b)

\* A result in which the shorter of two equal-scoring names was moved in
\* front of a longer one loaded earlier, and two equal-scoring names of equal
\* length kept their load order.
C2_Witness ==
    /\ searched
    /\ \E i, j \in 1..Len(results) :
          i < j /\ nodeScore(results[i], queryLower) = nodeScore(results[j], queryLower)
                /\ Len(results[i].name) < Len(results[j].name)
                /\ indexOf(results[i]) > indexOf(results[j])
    /\ \E i, j \in 1..Len(results) :
          i < j /\ nodeScore(results[i], queryLower) = nodeScore(results[j], queryLower)
                /\ Len(results[i].name) = Len(results[j].name)

\* C3: searchDestinations returns at most maxSuggestions nodes, where
\* maxSuggestions is 6 whenever the configuration supplies no value.
C3_AtMostMaxSuggestions ==
    searched => Len(results) <= claimedMaxSuggestions

\* C4: with k positive-scoring destinations the result has exactly
\* min(k, maxSuggestions) nodes, and no omitted positive-scoring node ranks
\* above a returned one.
C4_ExactlyTheTopRanked ==
    (searched /\ ~libraryData.isNull) =>
        /\ Len(results) = MathMin(Cardinality(positive), claimedMaxSuggestions)
        /\ \A i \in positive : \A r \in returned :
              nodes[i] \notin returned =>
                LET so == nodeScore(nodes[i], queryLower)
                    sr == nodeScore(r, queryLower)
                IN  /\ so <= sr
                    /\ so = sr => Len(nodes[i].name) >= Len(r.name)

\* C5: every returned node has type 'destination' and is a node of the graph.
C5_OnlyDestinations ==
    searched =>
        \A i \in 1..Len(results) :
            /\ results[i].type = "destination"
            /\ \E j \in 1..Len(nodes) : nodes[j] = results[i]

\* A non-empty result on a graph that holds a node of another type whose
\* name matches the query.
C5_Witness ==
    /\ searched
    /\ results # <<>>
    /\ \E j \in 1..Len(nodes) :
          nodes[j].type # "destination" /\ nodeScore(nodes[j], queryLower) > 0

\* The score of each heuristic taken on its own.
h1(nameLower, q) == IF nameLower = q THEN 100 ELSE 0

h2(nameLower, q) == IF startsWith(nameLower, q) THEN 95 ELSE 0

h3(nameLower, q) ==
    IF \E w \in {split(nameLower)[i] : i \in 1..Len(split(nameLower))} : startsWith(w, q)
    THEN 90 ELSE 0

h4(nameLower, q) == IF includes(nameLower, q) THEN 85 ELSE 0

h5(nameLower, q) == IF hasPartialWordMatch(nameLower, q) THEN 80 ELSE 0

h6(node, q) ==
    IF node.hasKeywords
    THEN SetMax({0} \cup {keywordMatch(node.search_keywords[i], q) :
                            i \in 1..Len(node.search_keywords)})
    ELSE 0

h7(nameLower, q) ==
    IF Len(q) > 3 THEN 0
    ELSE IF \E w \in {split(nameLower)[i] : i \in 1..Len(split(nameLower))} : includes(w, q)
         THEN 75
         ELSE IF includes(nameLower, q) THEN 70 ELSE 0

h8(nameLower, q) == IF matchesPattern(q) THEN getPatternMatchScore(nameLower, q) ELSE 0

h9(nameLower, q) == IF Len(q) >= 3 THEN getFuzzyMatchScore(nameLower, q) ELSE 0

bestOfHeuristics(node, q) ==
    LET n == toLowerCase(node.name)
        others == SetMax({h1(n, q), h2(n, q), h3(n, q), h4(n, q), h5(n, q),
                          h6(node, q), h7(n, q), h8(n, q)})
    IN  IF others > 0 THEN others ELSE h9(n, q)

positionOf(node) ==
    IF node \in returned THEN CHOOSE i \in 1..Len(results) : results[i] = node ELSE 0

\* The node comes before every returned node that scores below 100.
firstAmongLower(node) ==
    \A p \in 1..Len(results) :
        nodeScore(results[p], queryLower) < 100 =>
            (positionOf(node) > 0 /\ positionOf(node) < p)

\* C6 as stated, for queries that are not empty after trimming: a destination
\* whose name equals the query case-insensitively scores 100 and precedes
\* every returned node that scores below 100.
C6_ExactMatchOfRawQuery ==
    (searched /\ queryLower # <<>>) =>
        \A i \in 1..Len(nodes) :
            (isSearchable(nodes[i]) /\ toLowerCase(nodes[i].name) = toLowerCase(inputValue))
                => /\ nodeScore(nodes[i], queryLower) = 100
                   /\ firstAmongLower(nodes[i])

\* C6 amended: a destination whose lower-cased name equals the lower-cased,
\* trimmed query scores 100 and precedes every returned node that scores
\* below 100.
C6_ExactMatchOfTrimmedQuery ==
    searched =>
        \A i \in 1..Len(nodes) :
            (isSearchable(nodes[i]) /\ toLowerCase(nodes[i].name) = queryLower)
                => /\ nodeScore(nodes[i], queryLower) = 100
                   /\ firstAmongLower(nodes[i])

\* An exact match for a non-empty query that differs from the name in case or
\* in surrounding white space, loaded after a lower-scoring match and
\* returned in front of it.
C6_Witness ==
    /\ searched
    /\ queryLower # <<>>
    /\ \E i, j \in 1..Len(nodes) :
          /\ j < i
          /\ toLowerCase(nodes[i].name) = queryLower
          /\ nodes[i].name # inputValue
          /\ nodes[j] \in returned
          /\ nodeScore(nodes[j], queryLower) < 100
          /\ positionOf(nodes[i]) = 1

\* C7: the final score of every destination is the best single heuristic
\* score (fuzzy only when all others give 0), never a sum, an integer in
\* 0..100, and exactly the positive-scoring destinations enter the result.
C7_ScoreIsBestHeuristic ==
    searched =>
        /\ \A i \in 1..Len(nodes) :
              /\ nodeScore(nodes[i], queryLower) = bestOfHeuristics(nodes[i], queryLower)
              /\ nodeScore(nodes[i], queryLower) \in 0..100
        /\ returned = {nodes[i] : i \in positive}

\* A returned node that a name heuristic and the keyword heuristic both
\* match for a non-empty query.
C7_Witness ==
    /\ searched
    /\ queryLower # <<>>
    /\ \E i \in 1..Len(nodes) :
          /\ scoreAfter5(nodes[i], queryLower) > 0
          /\ h6(nodes[i], queryLower) > 0
          /\ nodes[i] \in returned

\* A returned node that only the fuzzy heuristic matches.
C7_FuzzyReached ==
    /\ searched
    /\ \E i \in 1..Len(nodes) :
          /\ scoreAfter8(nodes[i], queryLower) = 0
          /\ nodeScore(nodes[i], queryLower) > 0
          /\ nodes[i] \in returned

\* The room-code tokens of a node's name, case folded.
tokensOf(node) ==
    LET patterns == matchPatterns(toLowerCase(node.name))
    IN  {toLowerCase(patterns[i]) : i \in 1..Len(patterns)}

patternScoreOf(node) == getPatternMatchScore(toLowerCase(node.name), queryLower)

namedNodes(name) == {i \in 1..Len(nodes) : nodes[i].name = name}

\* C8 as stated: a room-code query that equals a room-code token of the
\* name gives the node score 85.
C8_RoomCodeScores85 ==
    (searched /\ matchesPattern(queryLower)) =>
        \A i \in 1..Len(nodes) :
            (isSearchable(nodes[i]) /\ queryLower \in tokensOf(nodes[i]))
                => nodeScore(nodes[i], queryLower) = 85

\* C8 amended: a room-code query that equals a room-code token of the name
\* gives the node a score of at least 85; for "2b", "Room 2B" has pattern
\* score 85 and final score 90, and ranks above "2nd Floor Break Room".
C8_RoomCodeScoresAtLeast85 ==
    (searched /\ matchesPattern(queryLower)) =>
        /\ \A i \in 1..Len(nodes) :
              (isSearchable(nodes[i]) /\ queryLower \in tokensOf(nodes[i]))
                  => nodeScore(nodes[i], queryLower) >= 85
        /\ queryLower = <<"2", "b">> =>
              \A i \in namedNodes(Room2B) :
                  /\ isSearchable(nodes[i]) =>
                        /\ patternScoreOf(nodes[i]) = 85
                        /\ nodeScore(nodes[i], queryLower) = 90
                  /\ \A j \in namedNodes(BreakRoom) :
                        (isSearchable(nodes[i]) /\ isSearchable(nodes[j])) =>
                            /\ nodeScore(nodes[j], queryLower) < nodeScore(nodes[i], queryLower)
                            /\ positionOf(nodes[i]) > 0
                            /\ positionOf(nodes[j]) > 0 =>
                                  positionOf(nodes[i]) < positionOf(nodes[j])

\* "2b" searched on a graph that holds "2nd Floor Break Room" before
\* "Room 2B", and "Room 2B" is returned.
C8_Witness ==
    /\ searched
    /\ queryLower = <<"2", "b">>
    /\ \E i \in namedNodes(Room2B) : \E j \in namedNodes(BreakRoom) :
          j < i /\ nodes[i] \in returned

\* The pattern score as C9 describes it: 85 if any token equals the query,
\* otherwise 75 if any token contains it, otherwise 0.
claimedPatternScore(node) ==
    IF queryLower \in tokensOf(node) THEN 85
    ELSE IF \E t \in tokensOf(node) : includes(t, queryLower) THEN 75
    ELSE 0

\* C9: getPatternMatchScore looks at all tokens of the name and does not
\* depend on their order.
C9_PatternScoreOverAllTokens ==
    (searched /\ matchesPattern(queryLower)) =>
        \A i \in 1..Len(nodes) :
            isSearchable(nodes[i]) => patternScoreOf(nodes[i]) = claimedPatternScore(nodes[i])

\* C10: for a room-code query heuristic 8 is applied to every destination
\* whatever its score so far, and the score after it is at least the score
\* before it and at least the pattern score.
C10_PatternNeverLowers ==
    (searched /\ matchesPattern(queryLower)) =>
        \A i \in 1..Len(nodes) :
            isSearchable(nodes[i]) =>
                LET before  == scoreAfter7(nodes[i], queryLower)
                    pattern == patternScoreOf(nodes[i])
                    after   == scoreAfter8(nodes[i], queryLower)
                    final   == nodeScore(nodes[i], queryLower)
                IN  /\ after >= before
                    /\ after >= pattern
                    /\ final >= before
                    /\ final >= pattern
                    /\ (pattern > 0 => nodes[i] \in returned)

\* A room-code query on a destination that heuristics 1-7 had already scored
\* above its non-zero pattern score.
C10_Witness ==
    /\ searched
    /\ matchesPattern(queryLower)
    /\ \E i \in 1..Len(nodes) :
          /\ isSearchable(nodes[i])
          /\ patternScoreOf(nodes[i]) > 0
          /\ scoreAfter7(nodes[i], queryLower) > patternScoreOf(nodes[i])
          /\ nodes[i] \in returned

\* The best score of heuristics 1-8, each taken on its own.
bestOf1to8(node, q) ==
    LET n == toLowerCase(node.name)
    IN  SetMax({h1(n, q), h2(n, q), h3(n, q), h4(n, q), h5(n, q),
                h6(node, q), h7(n, q), h8(n, q)})

fuzzyScoreOf(node) == getFuzzyMatchScore(toLowerCase(node.name), queryLower)

\* C11: the fuzzy heuristic changes a destination's score only when
\* heuristics 1-8 all gave 0 and the query has at least 3 characters; a
\* non-zero score of heuristics 1-8 is the final score.
C11_FuzzyOnlyAsLastResort ==
    searched =>
        \A i \in 1..Len(nodes) :
            isSearchable(nodes[i]) =>
                LET others == bestOf1to8(nodes[i], queryLower)
                    final  == nodeScore(nodes[i], queryLower)
                IN  /\ others > 0 => final = others
                    /\ final # others =>
                          /\ others = 0
                          /\ Len(queryLower) >= 3
                          /\ final = fuzzyScoreOf(nodes[i])

\* A returned destination that only a keyword matches (65) while a word of
\* its name is within fuzzy reach of the three-character query.
C11_Witness ==
    /\ searched
    /\ Len(queryLower) >= 3
    /\ \E i \in 1..Len(nodes) :
          /\ scoreAfter5(nodes[i], queryLower) = 0
          /\ h6(nodes[i], queryLower) > 0
          /\ fuzzyScoreOf(nodes[i]) > 0
          /\ nodes[i] \in returned

\* The minimum number of single-character insertions, deletions and
\* substitutions that turn a into b, by its defining recurrence.
RECURSIVE editDistance(_, _)
editDistance(a, b) ==
    IF a = <<>> THEN Len(b)
    ELSE IF b = <<>> THEN Len(a)
    ELSE IF Head(a) = Head(b) THEN editDistance(Tail(a), Tail(b))
    ELSE 1 + MathMin(editDistance(Tail(a), Tail(b)),
                     MathMin(editDistance(Tail(a), b), editDistance(a, Tail(b))))

\* The whitespace-delimited words of s: its maximal runs of other characters.
wordsOf(s) ==
    {SubSeq(s, i, j) : <<i, j>> \in
        {p \in (1..Len(s)) \X (1..Len(s)) :
            /\ p[1] <= p[2]
            /\ \A k \in p[1]..p[2] : s[k] \notin WhiteSpace
            /\ (p[1] = 1 \/ s[p[1] - 1] \in WhiteSpace)
            /\ (p[2] = Len(s) \/ s[p[2] + 1] \in WhiteSpace)}}

\* The fuzzy score as C12 states it.
claimedFuzzyScore(name, query) ==
    LET m(w) == MathMax(Len(w), Len(query))
        d(w) == editDistance(w, query)
        qualifying == {w \in wordsOf(name) :
                          /\ MathAbs(Len(w) - Len(query)) <= 2
                          /\ 10 * (m(w) - d(w)) >= 7 * m(w)}
    IN  SetMax({0} \cup {(60 * (m(w) - d(w))) \div m(w) : w \in qualifying})

\* C12: getFuzzyMatchScore is the best floor(60 * (m - d) / m) over the
\* words of the name within 2 characters of the query's length whose
\* similarity (m - d) / m is at least 0.70, and 0 when there is none;
\* "libary" against "Library Commons" gives 51, and "restrm" returns the
\* destination whose name holds the word "Restroom".
C12_FuzzyScoreIsBestWord ==
    searched =>
        /\ \A i \in 1..Len(nodes) :
              fuzzyScoreOf(nodes[i]) = claimedFuzzyScore(toLowerCase(nodes[i].name), queryLower)
        /\ queryLower = Libary =>
              \A i \in namedNodes(LibraryCommons) :
                  /\ fuzzyScoreOf(nodes[i]) = 51
                  /\ isSearchable(nodes[i]) => nodes[i] \in returned
        /\ queryLower = Restrm =>
              \A i \in namedNodes(MensRestroom) :
                  isSearchable(nodes[i]) => nodes[i] \in returned

\* "libary" searched on a graph with "Library Commons": the node is returned
\* on its fuzzy score alone.
C12_Witness ==
    /\ searched
    /\ queryLower = Libary
    /\ \E i \in namedNodes(LibraryCommons) :
          /\ scoreAfter8(nodes[i], queryLower) = 0
          /\ nodeScore(nodes[i], queryLower) = 51
          /\ results = <<nodes[i]>>

\* The keyword score as C13 states it: the best over the node's keywords of
\* 75 (equal), 70 (starts with the query) and 65 (contains it).
claimedKeywordScore(node, q) ==
    LET keywords == IF node.hasKeywords
                    THEN {toLowerCase(node.search_keywords[k]) :
                             k \in 1..Len(node.search_keywords)}
                    ELSE {}
        one(keyword) == IF keyword = q THEN 75
                        ELSE IF startsWith(keyword, q) THEN 70
                        ELSE IF includes(keyword, q) THEN 65
                        ELSE 0
    IN  SetMax({0} \cup {one(keyword) : keyword \in keywords})

\* No heuristic on the name (1-5, 7, 8, 9) matches the query.
nameSharesNothing(node, q) ==
    LET n == toLowerCase(node.name)
    IN  SetMax({h1(n, q), h2(n, q), h3(n, q), h4(n, q), h5(n, q),
                h7(n, q), h8(n, q), h9(n, q)}) = 0

\* C13: a destination whose name shares nothing with the query scores its
\* best keyword match (75, 70 or 65), 0 and no error without
\* search_keywords; "Annex C"
\* with keyword "restroom" scores 75 for "restroom".
C13_KeywordOnlyScore ==
    searched =>
        /\ \A i \in 1..Len(nodes) :
              (isSearchable(nodes[i]) /\ nameSharesNothing(nodes[i], queryLower)) =>
                  /\ nodeScore(nodes[i], queryLower) = claimedKeywordScore(nodes[i], queryLower)
                  /\ ~nodes[i].hasKeywords =>
                        (nodeScore(nodes[i], queryLower) = 0 /\ error = "none")
                  /\ nodes[i] \in returned <=> claimedKeywordScore(nodes[i], queryLower) > 0
        /\ queryLower = Restroom =>
              \A i \in namedNodes(AnnexC) :
                  (isSearchable(nodes[i]) /\ nodes[i].search_keywords = <<Restroom>>
                        /\ nodes[i].hasKeywords)
                      => nodeScore(nodes[i], queryLower) = 75

\* A returned destination whose name shares nothing with the query and whose
\* keywords match it in more than one way, the best being an exact match.
C13_Witness ==
    /\ searched
    /\ \E i \in 1..Len(nodes) :
          /\ nameSharesNothing(nodes[i], queryLower)
          /\ nodes[i].hasKeywords
          /\ \E k \in 1..Len(nodes[i].search_keywords) :
                keywordMatch(nodes[i].search_keywords[k], queryLower) = 65
          /\ nodeScore(nodes[i], queryLower) = 75
          /\ nodes[i] \in returned

\* C16: searchDestinations returns the empty sequence and does not fail when
\* the graph is absent, is an object without nodes, or has an empty node list.
C16_NoGraphGivesEmpty ==
    (searched
        /\ (libraryData.isNull \/ ~libraryData.hasNodes \/ libraryData.nodes = <<>>))
        => (results = <<>> /\ error = "none")

toUpperChar(c) ==
    IF \E i \in 1..26 : LowerCase[i] = c
    THEN UpperCase[CHOOSE i \in 1..26 : LowerCase[i] = c]
    ELSE c

toUpperCase(s) == [i \in 1..Len(s) |-> toUpperChar(s[i])]

\* The graph with every name and keyword in lower case, and in upper case.
lowerCased(data) ==
    [data EXCEPT !.nodes =
        [i \in 1..Len(data.nodes) |->
            [data.nodes[i] EXCEPT
                !.name = toLowerCase(@),
                !.search_keywords = [k \in 1..Len(@) |-> toLowerCase(@[k])]]]]

upperCased(data) ==
    [data EXCEPT !.nodes =
        [i \in 1..Len(data.nodes) |->
            [data.nodes[i] EXCEPT
                !.name = toUpperCase(@),
                !.search_keywords = [k \in 1..Len(@) |-> toUpperCase(@[k])]]]]

idsOf(found) == [i \in 1..Len(found) |-> found[i].id]

\* Queries with the same lower-cased, trimmed form as the one typed.
sameFormQueries ==
    {q \in ProbeQueries : trim(toLowerCase(q)) = trim(toLowerCase(inputValue))}
    \cup {toLowerCase(inputValue), toUpperCase(inputValue),
          <<" ">> \o inputValue \o <<"\t", " ">>,
          trim(toLowerCase(inputValue))}

\* C14: queries that differ only in letter case or in leading and trailing
\* white space give the same ordered result, and so do graphs whose names
\* and keywords differ only in letter case.
C14_CaseAndTrimInsensitive ==
    (pc = "searched" /\ error = "none" /\ libraryData.hasNodes) =>
        /\ \A q \in sameFormQueries :
              searchDestinations(config, q, libraryData) = results
        /\ idsOf(searchDestinations(config, inputValue, lowerCased(libraryData)))
              = idsOf(results)
        /\ idsOf(searchDestinations(config, inputValue, upperCased(libraryData)))
              = idsOf(results)

\* A non-empty result for a query typed with capital letters and surrounding
\* white space, on a graph whose names hold capital letters.
C14_Witness ==
    /\ searched
    /\ results # <<>>
    /\ queryLower # <<>>
    /\ toLowerCase(inputValue) # inputValue
    /\ trim(inputValue) # inputValue
    /\ \E i \in 1..Len(results) : toLowerCase(results[i].name) # results[i].name

edits(s, chars, maxLen) ==
    {SubSeq(s, 1, i - 1) \o SubSeq(s, i + 1, Len(s)) : i \in 1..Len(s)}
    \cup {[s EXCEPT ![i] = c] : i \in 1..Len(s), c \in chars}
    \cup (IF Len(s) < maxLen
          THEN {SubSeq(s, 1, i) \o <<c>> \o SubSeq(s, i + 1, Len(s)) :
                   i \in 0..Len(s), c \in chars}
          ELSE {})

\* The least number of edits that lead from a string of reached to b.
RECURSIVE editsUntil(_, _, _, _, _)
editsUntil(reached, b, chars, maxLen, k) ==
    IF b \in reached THEN k
    ELSE editsUntil(reached \cup UNION {edits(s, chars, maxLen) : s \in reached},
                    b, chars, maxLen, k + 1)

\* The minimum number of single-character edits that transform a into b,
\* found by trying every sequence of edits, shortest first.  A shortest
\* sequence needs no character outside a and b and no intermediate string
\* longer than the longer of the two.
minimumEdits(a, b) ==
    editsUntil({a}, b, {a[i] : i \in 1..Len(a)} \cup {b[i] : i \in 1..Len(b)},
               MathMax(Len(a), Len(b)), 0)

MaxSearchedLen == 4

\* C17: levenshteinDistance(a, b) is the minimum number of single-character
\* insertions, deletions and substitutions that transform a into b: 0 iff
\* a = b, symmetric, between |len(a) - len(b)| and max(len(a), len(b)).
C17_LevenshteinIsMinimumEdits ==
    (pc = "returned" /\ ret.fn = "levenshteinDistance") =>
        LET a == args[1]
            b == args[2]
        IN  /\ ret.value = editDistance(a, b)
            /\ (Len(a) <= MaxSearchedLen /\ Len(b) <= MaxSearchedLen)
                    => ret.value = minimumEdits(a, b)
            /\ ret.value = 0 <=> a = b
            /\ ret.value = levenshteinDistance(b, a)
            /\ ret.value >= MathAbs(Len(a) - Len(b))
            /\ ret.value <= MathMax(Len(a), Len(b))

\* A distance that takes a substitution and an insertion or deletion.
C17_Witness ==
    /\ pc = "returned"
    /\ ret.fn = "levenshteinDistance"
    /\ Len(args[1]) # Len(args[2])
    /\ args[1] # <<>>
    /\ args[2] # <<>>
    /\ ret.value > MathAbs(Len(args[1]) - Len(args[2]))
    /\ ret.value < MathMax(Len(args[1]), Len(args[2]))

\* The highlighted name as C18 states it: the leftmost non-overlapping
\* case-insensitive occurrences of the literal term, each between markers.
RECURSIVE claimedHighlight(_, _, _)
claimedHighlight(name, term, i) ==
    IF i > Len(name) THEN <<>>
    ELSE LET e == i + Len(term) - 1
         IN  IF e <= Len(name) /\ toLowerCase(SubSeq(name, i, e)) = toLowerCase(term)
             THEN <<MarkOpen>> \o SubSeq(name, i, e) \o <<MarkClose>>
                  \o claimedHighlight(name, term, e + 1)
             ELSE <<name[i]>> \o claimedHighlight(name, term, i + 1)

removeMarkers(out) == SelectSeq(out, LAMBDA x : x \notin {MarkOpen, MarkClose})

\* C18: highlightSearchTerm returns the name unchanged for an empty term;
\* otherwise it wraps exactly the non-overlapping case-insensitive
\* occurrences of the term, taken literally, in the marker, keeps the name's
\* casing, and removing the markers gives back the name.
C18_HighlightsLiteralOccurrences ==
    (pc = "returned" /\ ret.fn = "highlightSearchTerm") =>
        LET name == args[1]
            term == args[2]
        IN  /\ ~ret.threw
            /\ term = <<>> => ret.value = name
            /\ term # <<>> => ret.value = claimedHighlight(name, term, 1)
            /\ removeMarkers(ret.value) = name

\* A term that holds a regular-expression metacharacter and occurs in the
\* name more than once, in a name that also holds other characters.
C18_Witness ==
    /\ pc = "returned"
    /\ ret.fn = "highlightSearchTerm"
    /\ \E k \in 1..Len(args[2]) : args[2][k] \in MetaCharacters
    /\ Cardinality({k \in 1..Len(ret.value) : ret.value[k] = MarkOpen}) >= 2
    /\ Len(removeMarkers(ret.value)) > 2 * Len(args[2])

\* What a search, a category selection or a destination selection can change.
handlerEffects == <<results, suggestionItems, suggestionsShown,
                    selectedDestination, currentRoute, view, error>>

graphLoaded == ~libraryData.isNull /\ floorMaps = "loaded"

fetchFailed == ~(response.fetched /\ response.ok /\ response.validJson)

\* C20: when fetching the graph fails (rejected fetch, error status, or a
\* body that is not JSON), libraryData stays null, no handler is registered,
\* no search throws, and once loadLibraryData has finished the error screen
\* is shown.
C20_FetchFailureSurfaced ==
    fetchFailed =>
        /\ libraryData.isNull
        /\ ~listeners
        /\ error = "none"
        /\ pc # "constructed" => (screen = "error" /\ pc = "failed")

\* The values a final score can take: the scores of heuristics 1-4, the
\* keyword scores, the fuzzy scores, and 0 for a node that is not returned.
FinalScores == {0, 100, 95, 90, 85, 75, 70, 65} \cup (42..59)

\* C26: for a non-empty query, heuristics 5, 7 and 8 match only when the
\* name contains the query, where heuristics 1-4 give at least 85; the final
\* score is the best of heuristics 1-4 and the keyword score, or the fuzzy
\* score when that is 0, and is never 80.
C26_PartialShortPatternNeverDecide ==
    (searched /\ queryLower # <<>>) =>
        \A i \in 1..Len(nodes) :
            LET n == toLowerCase(nodes[i].name)
                q == queryLower
                oneToFour == SetMax({h1(n, q), h2(n, q), h3(n, q), h4(n, q)})
                base == MathMax(oneToFour, h6(nodes[i], q))
            IN  /\ (h5(n, q) > 0 \/ h7(n, q) > 0 \/ h8(n, q) > 0) =>
                       (includes(n, q) /\ oneToFour >= 85)
                /\ nodeScore(nodes[i], q) = IF base > 0 THEN base ELSE h9(n, q)
                /\ nodeScore(nodes[i], q) \in FinalScores

\* A returned node that heuristics 5, 7 and 8 all match, next to heuristics
\* 1-4.
C26_Witness ==
    /\ searched
    /\ queryLower # <<>>
    /\ \E i \in 1..Len(nodes) :
          LET n == toLowerCase(nodes[i].name)
          IN  /\ h5(n, queryLower) = 80
              /\ h7(n, queryLower) = 75
              /\ h8(n, queryLower) = 75
              /\ nodeScore(nodes[i], queryLower) = 85
              /\ nodes[i] \in returned

\* C25: called with the same query, graph and maxSuggestions, the legacy
\* searchDestinations returns the nodes the engine returns, in the same
\* order.
C25_LegacySearchEquivalent ==
    (pc = "compared" /\ error = "none") => legacyResults = results

\* Both copies return two or more nodes, in an order that is not the load
\* order.
C25_Witness ==
    /\ pc = "compared"
    /\ error = "none"
    /\ Len(legacyResults) >= 2
    /\ legacyResults[1].id > legacyResults[2].id
    /\ legacyResults = results

(***************************************************************************)
(* Selection, routes and floors of the modular application.                *)
(***************************************************************************)
\* The entries of paths under the key "F1_KIOSK_A-X".
entriesFor(X) ==
    {libraryData.paths[i].steps : i \in {j \in 1..Len(libraryData.paths) :
                                           libraryData.paths[j].end = X}}

isNodeId(X) == \E i \in 1..Len(libraryData.nodes) : libraryData.nodes[i].id = X

\* What the claim says a selection of X does to route and view.
selectionOutcome(X) ==
    IF entriesFor(X) # {}
    THEN /\ currentRoute' # <<>>
         /\ currentRoute'[1] \in entriesFor(X)
         /\ view' = "directions"
    ELSE /\ currentRoute' = currentRoute
         /\ view' = view

\* C23: selecting node X looks the route up under "F1_KIOSK_A-X": when
\* the entry exists currentRoute becomes that entry and the directions view
\* is shown; when X is no node id the state is left unchanged; when the
\* node exists but the entry, or paths itself, is missing, no directions
\* view is shown and currentRoute is left unchanged.  Stated for the
\* selection made by the deep-link timer, whose X is known before the step,
\* and for every step that selects another destination.
C23_SelectionLooksUpRoute ==
    [][ /\ (deepLinkTimer # NoDest /\ deepLinkTimer' = NoDest) =>
              IF isNodeId(deepLinkTimer)
              THEN selectionOutcome(deepLinkTimer)
              ELSE <<selectedDestination, currentRoute, view, suggestionsShown,
                     mapHighlight, currentFloor, error>>' =
                   <<selectedDestination, currentRoute, view, suggestionsShown,
                     mapHighlight, currentFloor, error>>
        /\ (selectedDestination' # selectedDestination /\ selectedDestination' # <<>>) =>
              selectionOutcome(selectedDestination'[1].id)
      ]_vars

\* The deep link named a node with an entry, its timer has fired, and the
\* directions view shows that entry.
C23_Witness ==
    /\ urlDest # NoDest
    /\ deepLinkTimer = NoDest
    /\ selectedDestination # <<>>
    /\ selectedDestination[1].id = urlDest
    /\ currentRoute # <<>>
    /\ currentRoute[1] \in entriesFor(urlDest)
    /\ view = "directions"

\* C27: currentRoute is null iff selectedDestination is null, and when both
\* are set currentRoute is the precomputed path of the selected destination.
C27_RouteIffDestination ==
    /\ (currentRoute = <<>>) <=> (selectedDestination = <<>>)
    /\ currentRoute # <<>> => currentRoute[1] \in entriesFor(selectedDestination[1].id)

\* A timer of switchFloor fires in this step.
timerFires == rehighlightTimers' # rehighlightTimers /\ rehighlightTimers' \subseteq rehighlightTimers

\* C28: when the deferred re-highlight of switchFloor fires, currentRoute is
\* non-null and what is highlighted is the active route on the floor shown,
\* with the marker of the selected destination.
C28_RehighlightIsCurrent ==
    [][ timerFires =>
            /\ currentRoute # <<>>
            /\ mapHighlight'.route = currentRoute
            /\ mapHighlight'.floor = currentFloor
            /\ mapHighlight'.dest = selectedDestination ]_vars

(***************************************************************************)
(* Mobile handoff.                                                         *)
(***************************************************************************)
\* The entries of data.paths under the key "F1_KIOSK_A-X".
entriesIn(data, X) ==
    {data.paths[i].steps : i \in {j \in 1..Len(data.paths) : data.paths[j].end = X}}

\* The page is opened with the URL that generateQRCode encodes for a node
\* of the graph served that has a precomputed route, and everything the
\* page fetches is served.
openedWithHandoffUrl ==
    /\ pc = "constructed"
    /\ response.fetched /\ response.ok /\ response.validJson
    /\ floorMapsResponse = "ok"
    /\ urlDest # NoDest
    /\ entriesIn(response.body, urlDest) # {}

\* The directions view shows the route to the node of the URL.
handoffShown ==
    /\ view = "directions"
    /\ selectedDestination # <<>>
    /\ selectedDestination[1].id = urlDest
    /\ currentRoute # <<>>
    /\ currentRoute[1] \in entriesIn(libraryData, urlDest)

\* C24: opening the application with the URL parameters generateQRCode
\* encodes for a destination with a precomputed route eventually leads to
\* the directions view with that destination selected and its route current.
C24_HandoffRoundTrip == openedWithHandoffUrl ~> handoffShown

(***************************************************************************)
(* The legacy application: debounce, graph, floors, keyboard.              *)
(***************************************************************************)
\* C21: the search input is debounced.  At most one search timer is pending;
\* an input event cancels the pending timer and leaves its own; the handler
\* runs only for the last event, with no newer event pending, and at most
\* once for an event; and a pending timer is eventually followed by the
\* handler run for the last event.
C21_Debounced ==
    /\ [](Cardinality(searchTimers) <= 1)
    /\ [][inputEvents' # inputEvents => searchTimers' = {inputEvents'}]_vars
    /\ [][lastHandled' # lastHandled =>
            /\ lastHandled' = inputEvents
            /\ lastHandled' > lastHandled
            /\ searchTimers' = {}]_vars
    /\ (searchTimers # {}) ~> (searchTimers = {} /\ lastHandled = inputEvents)

\* Two input events in one burst: the timer of the first is cancelled, the
\* timer of the second is pending, and the handler has not run.
C21_Witness ==
    /\ inputEvents = 2
    /\ lastHandled = 0
    /\ searchTimers = {2}

\* C22: once init is over no operation of the user (search, category and
\* destination selection, floor switch, back navigation, resize) and no
\* timer assigns the graph or changes its nodes or paths.
C22_GraphReadOnly == [][pc # "constructed" => libraryData' = libraryData]_vars

\* A search has run, a route on floor 2 is shown, and the graph is the one
\* that was served.
C22_Witness ==
    /\ pc = "idle"
    /\ lastHandled > 0
    /\ view = "directions"
    /\ currentFloor = 2
    /\ libraryData = response.body

\* C29: a back navigation leaves no destination, no route and floor 1, and
\* while the selection view is shown the floor changes only by a click on a
\* floor button: no timer and no observer callback changes it.
C29_FloorStaysAfterBack ==
    /\ [][(view = "directions" /\ view' = "selection") =>
            /\ selectedDestination' = <<>>
            /\ currentRoute' = <<>>
            /\ currentFloor' = 1]_vars
    /\ [][(view = "selection" /\ currentFloor' # currentFloor) => legacyClickFloor]_vars

\* The deferred observer setup has run after a back navigation: an observer
\* is stored while the selection view is shown on floor 1.
C29_Witness ==
    /\ view = "selection"
    /\ selectedDestination = <<>>
    /\ currentFloor = 1
    /\ scrollObserver.stored = "current"
    /\ floorSwitchTimeout # 0
    /\ floorSwitchTimers = {}

\* The one highlighted suggestion.
theHighlighted == CHOOSE i \in highlighted : TRUE

\* The results of the engine for what the search box holds.
topRanked == searchDestinations(config, inputValue, libraryData)

\* C30: at most one suggestion is highlighted; ArrowDown moves the
\* highlight to the next item and wraps from the last to the first, ArrowUp
\* moves it to the previous item and wraps from the first to the last;
\* Enter selects the highlighted suggestion when there is one, otherwise the
\* top-ranked result of the input, and does nothing when the trimmed input
\* is empty or has no results.
C30_KeyboardNavigation ==
    /\ [](Cardinality(highlighted) <= 1)
    /\ [][(handleKeydown("ArrowDown") /\ highlighted # {}) =>
            highlighted' = {IF theHighlighted = Len(suggestionItems)
                            THEN 1 ELSE theHighlighted + 1}]_vars
    /\ [][(handleKeydown("ArrowUp") /\ highlighted # {}) =>
            highlighted' = {IF theHighlighted = 1
                            THEN Len(suggestionItems) ELSE theHighlighted - 1}]_vars
    /\ [][handleKeydown("Enter") =>
            IF highlighted # {}
            THEN selectedDestination' = <<suggestionItems[theHighlighted]>>
            ELSE IF trim(inputValue) = <<>> \/ topRanked = <<>>
                 THEN vars' = vars
                 ELSE selectedDestination' = <<topRanked[1]>>]_vars

\* The last of three suggestions is highlighted.
C30_Witness ==
    /\ Len(suggestionItems) = 3
    /\ highlighted = {3}
    /\ suggestionsShown

====
